---- MODULE Spec2Model ----
(***************************************************************************)
(* Server core of the collaborative journal platform.                      *)
(*                                                                         *)
(* Part I models the delegation engine (src/src/delegation): registered    *)
(* participants, work items, approval requests, the per-participant work   *)
(* and approval queues and the events it broadcasts.  Every engine method  *)
(* is a sequence of lock sections (one RwLock per field); a section is one *)
(* atomic step, and calls issued by different connections interleave       *)
(* between sections.  One connection handles its frames one at a time, so  *)
(* each participant has at most one call in flight.                        *)
(*                                                                         *)
(* Part II models the streaming-response pipeline (src/src/websocket.rs:   *)
(* handle_submit, handle_fork, handle_rerun, stream_response and           *)
(* handle_cancel) for one assistant block: the block's persisted row, the  *)
(* frames written to the connection that asked for the response, and the   *)
(* upstream event stream the pipeline consumes.                            *)
(*                                                                         *)
(* Part III models journal rooms (src/src/crdt/room.rs) and what a         *)
(* connection does with them (src/src/websocket.rs: handle_subscribe, its  *)
(* relay task, handle_unsubscribe, the Cursor and CrdtUpdate frames and    *)
(* the cleanup when the connection ends): the room manager's map, each     *)
(* room's participants, document and broadcast channel, and each           *)
(* connection's subscriptions and delegation registrations.                *)
(*                                                                         *)
(* Part IV models a handler's replies and its outbound sink, Part V the    *)
(* blocks table (src/src/store.rs) as the handlers use it, Part VI the     *)
(* reader of the upstream event stream (src/src/opencode.rs) and Part VII  *)
(* the base64 helpers of src/src/websocket.rs.  Part VIII models the       *)
(* journal document (src/src/crdt/journal_doc.rs) and its exchange of      *)
(* state between replicas, Part IX the engine's locks as each method       *)
(* takes and drops them, Part X a subscription from its reply to its end,  *)
(* and Part XI the delegation requests of a connection that is registered  *)
(* in several journals.                                                    *)
(***************************************************************************)
EXTENDS Integers, Sequences, FiniteSets, TLC

VARIABLES
    participants,     \* DelegationManager.participants: id -> RegisteredParticipant
    work_items,       \* DelegationManager.work_items: sequence indexed by work item id
    approvals,        \* DelegationManager.approvals: sequence indexed by approval id
    work_queues,      \* DelegationManager.work_queues: id -> sequence of work item ids
    approval_queues,  \* DelegationManager.approval_queues: id -> sequence of approval ids
    events,           \* per work item, the kinds of event broadcast about it so far
    call,             \* per connection (participant id), the engine call in flight
    last,             \* outcome of the latest step: the result returned, the event broadcast
    block_status,     \* blocks.status of the assistant block ("none": no row yet)
    block_content,    \* blocks.content of the assistant block, as the sequence of its texts
    full_content,     \* the pipeline's local buffer of the texts received so far
    frames,           \* the frames written to the originating connection, in order
    pipe,             \* where the originating connection's handler is in the pipeline
    consumed,         \* upstream events the pipeline has taken from the stream
    cancels,          \* Cancel frames handled for the block
    late_deltas,      \* deltas sent since a Cancel of the streaming block was handled (-1: none was)
    rooms,            \* RoomManager.rooms: journal -> room object (0: no entry)
    members,          \* per room object, JournalRoom.participants: id -> Participant
    docs,             \* per room object, the updates its document has applied
    room_events,      \* per room object, the events sent on its broadcast channel so far
    relays,           \* the relay tasks spawned by handle_subscribe, each with its receiver
    subscriptions,    \* per connection, ConnectionState.subscriptions: journal -> participant id
    delegation_registrations,  \* per connection, journal -> registered participant id
    registered_by,    \* registered participant id -> the connection that registered it
    handler,          \* per connection, where its handler task is
    relayed,          \* per connection, the frames its relay tasks wrote to it
    sink,             \* per connection, whether writes to its outbound sink succeed
    write_failed,     \* per connection, whether a write to its sink has failed
    replies,          \* per connection, the frames its handler wrote to it, in order
    blocks,           \* the blocks table: the rows in insertion order, a block's id is its index
    now,              \* the clock that stamps the rows
    store_result,     \* the result of the last fork or rerun
    payload,          \* the bytes of the upstream response read so far
    sse,              \* parse_sse_stream: its buffer, its data and what it has yielded
    received,         \* the events the upstream has sent on a stream opened for a session
    reader,           \* parse_sse_stream on that stream: event_type, data, what it has yielded
    original,         \* a byte sequence to carry in a frame
    decoded,          \* what base64_decode makes of its encoding
    replica,          \* two replicas of a journal's document: the structs each one holds
    exchanged,        \* <<to, from>>: to has applied from.encode_state() since the last edit
    tasks,            \* two tasks inside the engine: the method each runs and how far it is
    snapshots,        \* participant id -> what its Subscribed reply was built from
    journal_registrations,  \* one connection's delegation_registrations over several journals
    executed          \* the last request without journal id that connection had executed

dvars == <<participants, work_items, approvals, work_queues, approval_queues, events, call, last>>
pvars == <<block_status, block_content, full_content, frames, pipe, consumed, cancels, late_deltas>>
rvars == <<rooms, members, docs, room_events, relays, subscriptions,
           delegation_registrations, registered_by, handler, relayed>>
svars == <<sink, write_failed, replies>>
tvars == <<blocks, now, store_result>>
evars == <<payload, sse>>
fvars == <<received, reader>>
gvars == <<original, decoded>>
cvars == <<replica, exchanged>>
lvars == <<tasks>>
nvars == <<snapshots>>
avars == <<journal_registrations, executed>>
xvars == <<tvars, evars, fvars, gvars, cvars, lvars, nvars, avars>>
vars == <<dvars, pvars, rvars, svars, xvars>>

(***************************************************************************)
(* Bounds of the model.                                                    *)
(***************************************************************************)
MaxItems == 1        \* work items ever delegated
MaxApprovals == 2    \* approval requests ever created
MaxInFlight == 2     \* engine calls in flight at the same time
MaxEvents == 3       \* upstream events consumed by one streaming response
MaxCancels == 2      \* Cancel frames handled for one block
MaxQueued == 2       \* work items ever delegated where queue order is examined
MaxRooms == 2        \* room objects ever created
MaxJoins == 2        \* presence participants ever created
MaxInbox == 2        \* events waiting in one relay's receiver
MaxIdle == 2         \* units of time a participant's inactivity is followed for
MaxBlocks == 5       \* rows of the blocks table
MaxNow == 2          \* instants of the store's clock
MaxBytes == 6        \* bytes of an upstream response
MaxChunk == 2        \* bytes of one chunk of it
MaxUpstream == 2     \* events of one upstream stream
MaxLen == 4          \* bytes of a sequence to encode
MaxStructs == 6      \* structs the two replicas make
MaxReplies == 2      \* frames a handler writes to its connection in reply

None == "none"

\* The connections that register with the engine, and the kind each registers as.
ParticipantIds == {"alice", "bob", "watcher"}

\* The connections, and the journals they name in their frames.
Connections == {"origin", "other"}
Journals == {"journal"}

KindOf(p) ==
    CASE p = "alice" -> "user"
      [] p = "bob" -> "agent"
      [] OTHER -> "observer"

\* Presence participant ids are fresh random values; the model names one by
\* the connection whose Subscribe created it and a serial number.
NoPid == [conn |-> None, n |-> 0]

\* The handler task of a connection waiting for the next frame.
Listening == [pc |-> "listening", journal |-> None, room |-> 0, pid |-> NoPid]

(***************************************************************************)
(* Capabilities and registered participants.                               *)
(***************************************************************************)
default_user == {"read", "submit", "fork", "delegate", "approve"}
default_agent == {"read", "submit", "fork", "delegate"}
default_observer == {"read"}

has(capabilities, cap) == "admin" \in capabilities \/ cap \in capabilities

RegisteredParticipant(kind) ==
    [kind |-> kind,
     capabilities |-> CASE kind = "user" -> default_user
                        [] kind = "agent" -> default_agent
                        [] OTHER -> default_observer,
     accepting_work |-> TRUE,
     work_capacity |-> CASE kind = "user" -> 5
                         [] kind = "agent" -> 10
                         [] OTHER -> 0]

can_delegate(rp) == has(rp.capabilities, "delegate")
can_approve(rp) == has(rp.capabilities, "approve")
can_receive_work(rp) == rp.accepting_work /\ rp.work_capacity > 0

(***************************************************************************)
(* Work items and approval requests.                                       *)
(***************************************************************************)
WorkItemStatus ==
    {"pending", "in_progress", "awaiting_approval", "approved", "rejected",
     "declined", "cancelled"}

is_terminal(status) == status \in {"approved", "declined", "cancelled"}
is_open(status) == ~is_terminal(status)
is_active(status) == status \in {"in_progress", "rejected"}

\* WorkItem::new followed by require_approval when the request asks for it.
WorkItem(delegator_id, assignee_id, requires_approval, approver_id) ==
    [delegator_id |-> delegator_id,
     assignee_id |-> assignee_id,
     status |-> "pending",
     requires_approval |-> requires_approval,
     approver_id |-> IF requires_approval THEN approver_id ELSE None,
     result |-> FALSE]

get_approver_id(item) ==
    IF item.approver_id = None THEN item.delegator_id ELSE item.approver_id

\* The status submit_for_approval moves an active item to.
SubmittedStatus(item) ==
    IF item.requires_approval THEN "awaiting_approval" ELSE "approved"

\* ApprovalRequest::new(&item), item being the clone submit_work took of the work item.
ApprovalRequest(work_item_id, item) ==
    [work_item_id |-> work_item_id,
     requester_id |-> item.assignee_id,
     approver_id |-> get_approver_id(item),
     status |-> "pending"]

(***************************************************************************)
(* Hash maps and queues.                                                   *)
(***************************************************************************)
Put(f, k, v) == [x \in DOMAIN f \cup {k} |-> IF x = k THEN v ELSE f[x]]
Drop(f, k) == [x \in DOMAIN f \ {k} |-> f[x]]
QueueOf(qs, p) == IF p \in DOMAIN qs THEN qs[p] ELSE <<>>
\* queues.entry(p).or_default().push(id)
Push(qs, p, id) == Put(qs, p, Append(QueueOf(qs, p), id))
\* if let Some(queue) = queues.get_mut(&p) { queue.retain(|&x| x != id) }
Retain(qs, p, id) ==
    IF p \in DOMAIN qs
    THEN [qs EXCEPT ![p] = SelectSeq(@, LAMBDA x : x # id)]
    ELSE qs
InQueue(qs, p, id) == \E i \in 1..Len(QueueOf(qs, p)) : QueueOf(qs, p)[i] = id
Occurrences(seq, id) == Cardinality({i \in 1..Len(seq) : seq[i] = id})


(***************************************************************************)
(* Calls in flight.  call[p] is the engine call that p's connection is     *)
(* executing: the method, the next lock section (pc) and the locals the    *)
(* method carries from one section to the next.                            *)
(***************************************************************************)
Idle == [op |-> "idle", pc |-> 0, w |-> 0, a |-> 0, who |-> None, apv |-> None, na |-> FALSE]

InFlight == {p \in ParticipantIds : call[p].op # "idle"}

\* A connection issues engine calls for the participant it registered, one at a time.
CanBegin(p) ==
    /\ p \in DOMAIN participants
    /\ call[p].op = "idle"
    /\ Cardinality(InFlight) < MaxInFlight

At(p, op, pc) == call[p].op = op /\ call[p].pc = pc

\* claim_work keeps its write guard on work_items while it awaits work_queues.
ItemsFree == \A q \in ParticipantIds : ~At(q, "claim", 3)

\* Ids are random 128-bit values: a caller can name a work item only once the
\* assignee's queue (or an event) has shown it, an approval only once the
\* approver's queue has; 0 stands for an id the engine never issued.
KnownItems == {w \in 1..Len(work_items) : \A q \in ParticipantIds : ~(At(q, "delegate", 3) /\ call[q].w = w)}
KnownApprovals == {a \in 1..Len(approvals) : \A q \in ParticipantIds : ~(At(q, "submit", 4) /\ call[q].a = a)}
ItemArgs == KnownItems \cup {0}
ApprovalArgs == KnownApprovals \cup {0}

\* p's call moves on to its next section; no engine step touches the pipeline.
Goes(p, c) ==
    /\ call' = [call EXCEPT ![p] = c]
    /\ last' = [res |-> "running", ev |-> None]
    /\ UNCHANGED <<pvars, rvars, svars, xvars>>

\* p's call returns res, having broadcast ev (None: no event).
Returns(p, op, res, ev) ==
    /\ call' = [call EXCEPT ![p] = Idle]
    /\ last' = [res |-> res, ev |-> ev]
    /\ UNCHANGED <<pvars, rvars, svars, xvars>>

\* event_tx.send of an event about work item w
Broadcast(w, ev) == events' = [events EXCEPT ![w] = @ \cup {ev}]

SetStatus(items, w, status) == [items EXCEPT ![w].status = status]

(***************************************************************************)
(* Registration.                                                           *)
(***************************************************************************)
\* A connection registers a fresh participant id; the id is never reused.
Registers(p) ==
    /\ p \notin DOMAIN participants
    /\ p \notin DOMAIN work_queues
    /\ participants' = Put(participants, p, RegisteredParticipant(KindOf(p)))
    /\ work_queues' = Put(work_queues, p, QueueOf(work_queues, p))
    /\ approval_queues' = Put(approval_queues, p, QueueOf(approval_queues, p))

register_participant(p) ==
    /\ Registers(p)
    /\ call[p].op = "idle"
    /\ last' = [res |-> "ok",
                ev |-> "ParticipantRegistered"]
    /\ UNCHANGED <<work_items, approvals, events, call, pvars, rvars, svars, xvars>>

\* On disconnect; the connection has no call in flight then.  (Participants
\* stay registered in the specifications below.)
unregister_participant(p) ==
    /\ p \in DOMAIN participants
    /\ call[p].op = "idle"
    /\ participants' = Drop(participants, p)
    /\ last' = [res |-> "ok", ev |-> None]
    /\ UNCHANGED <<work_items, approvals, work_queues, approval_queues, events, call, pvars, rvars, svars, xvars>>

set_accepting_work(p, accepting) ==
    /\ CanBegin(p)
    /\ participants' = [participants EXCEPT ![p].accepting_work = accepting]
    /\ last' = [res |-> "ok",
                ev |-> "ParticipantStatusChanged"]
    /\ UNCHANGED <<work_items, approvals, work_queues, approval_queues, events, call, pvars, rvars, svars, xvars>>

(***************************************************************************)
(* delegate                                                                *)
(***************************************************************************)
\* Section 1, under participants.read: the four preconditions, in the code's order.
DelegateCheck(delegator_id, assignee_id) ==
    IF delegator_id \notin DOMAIN participants THEN "ParticipantNotFound"
    ELSE IF ~can_delegate(participants[delegator_id]) THEN "InsufficientCapability"
    ELSE IF assignee_id \notin DOMAIN participants THEN "ParticipantNotFound"
    ELSE IF ~can_receive_work(participants[assignee_id]) THEN "NotAcceptingWork"
    ELSE "ok"

ItemsBudget ==
    Len(work_items) + Cardinality({q \in ParticipantIds : At(q, "delegate", 2)}) < MaxItems

\* The first section, whatever the number of items delegated so far.
DelegateBegin(p, assignee_id, requires_approval, approver_id) ==
    /\ CanBegin(p)
    /\ LET res == DelegateCheck(p, assignee_id) IN
        IF res # "ok"
        THEN Returns(p, "delegate", res, None)
        ELSE Goes(p, [Idle EXCEPT !.op = "delegate", !.pc = 2, !.who = assignee_id,
                                  !.na = requires_approval, !.apv = approver_id])
    /\ UNCHANGED <<participants, work_items, approvals, work_queues, approval_queues, events>>

Delegate1(p, assignee_id, requires_approval, approver_id) ==
    /\ ItemsBudget
    /\ DelegateBegin(p, assignee_id, requires_approval, approver_id)

\* Section 2, under work_items.write: store the new item.
Delegate2(p) ==
    /\ At(p, "delegate", 2)
    /\ ItemsFree
    /\ work_items' = Append(work_items, WorkItem(p, call[p].who, call[p].na, call[p].apv))
    /\ events' = Append(events, {})
    /\ Goes(p, [call[p] EXCEPT !.pc = 3, !.w = Len(work_items) + 1])
    /\ UNCHANGED <<participants, approvals, work_queues, approval_queues>>

\* Section 3, under work_queues.write: append to the assignee's queue.
Delegate3(p) ==
    /\ At(p, "delegate", 3)
    /\ work_queues' = Push(work_queues, call[p].who, call[p].w)
    /\ Goes(p, [call[p] EXCEPT !.pc = 4])
    /\ UNCHANGED <<participants, work_items, approvals, approval_queues, events>>

\* After the last guard is dropped: broadcast and return.
Delegate4(p) ==
    /\ At(p, "delegate", 4)
    /\ Broadcast(call[p].w, "WorkDelegated")
    /\ Returns(p, "delegate", "ok", "WorkDelegated")
    /\ UNCHANGED <<participants, work_items, approvals, work_queues, approval_queues>>

(***************************************************************************)
(* accept_work: one section under work_items.write, the event included.    *)
(***************************************************************************)
AcceptCheck(w, acceptor_id) ==
    IF w \notin 1..Len(work_items) THEN "WorkItemNotFound"
    ELSE IF work_items[w].assignee_id # acceptor_id THEN "NotAuthorized"
    ELSE IF work_items[w].status # "pending" THEN "InvalidStateTransition"
    ELSE "ok"

accept_work(p, w) ==
    /\ CanBegin(p)
    /\ ItemsFree
    /\ LET res == AcceptCheck(w, p) IN
        IF res # "ok"
        THEN /\ Returns(p, "accept", res, None)
             /\ UNCHANGED <<work_items, events>>
        ELSE /\ work_items' = SetStatus(work_items, w, "in_progress")
             /\ Broadcast(w, "WorkAccepted")
             /\ Returns(p, "accept", "ok", "WorkAccepted")
    /\ UNCHANGED <<participants, approvals, work_queues, approval_queues>>

(***************************************************************************)
(* decline_work                                                            *)
(***************************************************************************)
DeclineCheck(w, decliner_id) ==
    IF w \notin 1..Len(work_items) THEN "WorkItemNotFound"
    ELSE IF work_items[w].assignee_id # decliner_id THEN "NotAuthorized"
    ELSE IF work_items[w].status # "pending" THEN "InvalidStateTransition"
    ELSE "ok"

Decline1(p, w) ==
    /\ CanBegin(p)
    /\ ItemsFree
    /\ LET res == DeclineCheck(w, p) IN
        IF res # "ok"
        THEN /\ Returns(p, "decline", res, None)
             /\ UNCHANGED work_items
        ELSE /\ work_items' = SetStatus(work_items, w, "declined")
             /\ Goes(p, [Idle EXCEPT !.op = "decline", !.pc = 2, !.w = w])
    /\ UNCHANGED <<participants, approvals, work_queues, approval_queues, events>>

Decline2KeepsQueued(p) ==
    /\ At(p, "decline", 2)
    /\ Goes(p, [call[p] EXCEPT !.pc = 3])
    /\ UNCHANGED <<participants, work_items, approvals, work_queues, approval_queues, events>>

Decline2(p) ==
    /\ At(p, "decline", 2)
    /\ work_queues' = Retain(work_queues, p, call[p].w)
    /\ Goes(p, [call[p] EXCEPT !.pc = 3])
    /\ UNCHANGED <<participants, work_items, approvals, approval_queues, events>>

Decline3(p) ==
    /\ At(p, "decline", 3)
    /\ Broadcast(call[p].w, "WorkDeclined")
    /\ Returns(p, "decline", "ok", "WorkDeclined")
    /\ UNCHANGED <<participants, work_items, approvals, work_queues, approval_queues>>


(***************************************************************************)
(* submit_work                                                             *)
(***************************************************************************)
SubmitCheck(w, submitter_id) ==
    IF w \notin 1..Len(work_items) THEN "WorkItemNotFound"
    ELSE IF work_items[w].assignee_id # submitter_id THEN "NotAuthorized"
    ELSE IF ~is_active(work_items[w].status) THEN "InvalidStateTransition"
    ELSE "ok"

ApprovalsBudget ==
    Len(approvals)
      + Cardinality({q \in ParticipantIds : call[q].op = "submit" /\ call[q].pc \in {2, 3} /\ call[q].na})
      < MaxApprovals

\* Section 1, under work_items.write: submit_for_approval, and a clone of the item
\* (its assignee and approver are what the later sections use).
Submit1(p, w) ==
    /\ CanBegin(p)
    /\ ItemsFree
    /\ LET res == SubmitCheck(w, p) IN
        IF res # "ok"
        THEN /\ Returns(p, "submit", res, None)
             /\ UNCHANGED work_items
        ELSE /\ work_items[w].requires_approval => ApprovalsBudget
             /\ work_items' = [work_items EXCEPT ![w].result = TRUE,
                                                 ![w].status = SubmittedStatus(work_items[w])]
             /\ Goes(p, [Idle EXCEPT !.op = "submit", !.pc = 2, !.w = w,
                                      !.na = work_items[w].requires_approval,
                                      !.who = work_items[w].assignee_id,
                                      !.apv = work_items[w].approver_id])
    /\ UNCHANGED <<participants, approvals, work_queues, approval_queues, events>>

\* The clone of the work item that submit_work holds after section 1 (the
\* delegator of an item never changes).
SubmitClone(p) ==
    [assignee_id |-> call[p].who,
     delegator_id |-> work_items[call[p].w].delegator_id,
     approver_id |-> call[p].apv]

\* Section 2, under work_queues.write: remove from the submitter's queue.
Submit2(p) ==
    /\ At(p, "submit", 2)
    /\ work_queues' = Retain(work_queues, p, call[p].w)
    /\ Goes(p, [call[p] EXCEPT !.pc = IF call[p].na THEN 3 ELSE 5])
    /\ UNCHANGED <<participants, work_items, approvals, approval_queues, events>>

\* Section 3, under approvals.write: store the approval request.
Submit3(p) ==
    /\ At(p, "submit", 3)
    /\ approvals' = Append(approvals, ApprovalRequest(call[p].w, SubmitClone(p)))
    /\ Goes(p, [call[p] EXCEPT !.pc = 4, !.a = Len(approvals) + 1])
    /\ UNCHANGED <<participants, work_items, work_queues, approval_queues, events>>

\* Section 4, under approval_queues.write: append to the approver's queue.
Submit4(p) ==
    /\ At(p, "submit", 4)
    /\ approval_queues' = Push(approval_queues, get_approver_id(SubmitClone(p)), call[p].a)
    /\ Goes(p, [call[p] EXCEPT !.pc = 5])
    /\ UNCHANGED <<participants, work_items, approvals, work_queues, events>>

Submit5(p) ==
    /\ At(p, "submit", 5)
    /\ LET ev == IF call[p].na THEN "ApprovalRequested" ELSE "WorkApproved" IN
        /\ Broadcast(call[p].w, ev)
        /\ Returns(p, "submit", "ok", ev)
    /\ UNCHANGED <<participants, work_items, approvals, work_queues, approval_queues>>

(***************************************************************************)
(* approve and reject                                                      *)
(***************************************************************************)
ApproverCheckNoCapability(approver_id) ==
    IF approver_id \notin DOMAIN participants THEN "ParticipantNotFound" ELSE "ok"

\* Section 1 of approve and of reject, under participants.read.
ApproverCheck(approver_id) ==
    IF approver_id \notin DOMAIN participants THEN "ParticipantNotFound"
    ELSE IF ~can_approve(participants[approver_id]) THEN "InsufficientCapability"
    ELSE "ok"

\* Section 2 of approve and of reject, under approvals.write, up to the status change.
ResolveCheck(a, approver_id) ==
    IF a \notin 1..Len(approvals) THEN "ApprovalNotFound"
    ELSE IF approvals[a].approver_id # approver_id THEN "NotAuthorized"
    ELSE IF approvals[a].status # "pending" THEN "InvalidStateTransition"
    ELSE "ok"

\* approve, section 3, under work_items.write
ApproveItem(items, w) == SetStatus(items, w, "approved")

\* reject, section 3, under work_items.write
RejectItem(items, w) == SetStatus(items, w, "rejected")

Approve1(p, a) ==
    /\ CanBegin(p)
    /\ LET res == ApproverCheck(p) IN
        IF res # "ok"
        THEN Returns(p, "approve", res, None)
        ELSE Goes(p, [Idle EXCEPT !.op = "approve", !.pc = 2, !.a = a])
    /\ UNCHANGED <<participants, work_items, approvals, work_queues, approval_queues, events>>

Approve2(p) ==
    /\ At(p, "approve", 2)
    /\ LET a == call[p].a
           res == ResolveCheck(a, p) IN
        IF res # "ok"
        THEN /\ Returns(p, "approve", res, None)
             /\ UNCHANGED approvals
        ELSE /\ approvals' = [approvals EXCEPT ![a].status = "approved"]
             /\ Goes(p, [call[p] EXCEPT !.pc = 3, !.w = approvals[a].work_item_id])
    /\ UNCHANGED <<participants, work_items, work_queues, approval_queues, events>>

Approve3(p) ==
    /\ At(p, "approve", 3)
    /\ ItemsFree
    /\ work_items' = ApproveItem(work_items, call[p].w)
    /\ Goes(p, [call[p] EXCEPT !.pc = 4])
    /\ UNCHANGED <<participants, approvals, work_queues, approval_queues, events>>

Approve4KeepsQueued(p) ==
    /\ At(p, "approve", 4)
    /\ Goes(p, [call[p] EXCEPT !.pc = 5])
    /\ UNCHANGED <<participants, work_items, approvals, work_queues, approval_queues, events>>

\* Section 4, under approval_queues.write: remove from the approver's queue.
Approve4(p) ==
    /\ At(p, "approve", 4)
    /\ approval_queues' = Retain(approval_queues, p, call[p].a)
    /\ Goes(p, [call[p] EXCEPT !.pc = 5])
    /\ UNCHANGED <<participants, work_items, approvals, work_queues, events>>

\* approvals.read for the returned copy, then the broadcast.
Approve5(p) ==
    /\ At(p, "approve", 5)
    /\ Broadcast(call[p].w, "WorkApproved")
    /\ Returns(p, "approve", "ok", "WorkApproved")
    /\ UNCHANGED <<participants, work_items, approvals, work_queues, approval_queues>>

Reject1(p, a) ==
    /\ CanBegin(p)
    /\ LET res == ApproverCheck(p) IN
        IF res # "ok"
        THEN Returns(p, "reject", res, None)
        ELSE Goes(p, [Idle EXCEPT !.op = "reject", !.pc = 2, !.a = a])
    /\ UNCHANGED <<participants, work_items, approvals, work_queues, approval_queues, events>>

Reject2(p) ==
    /\ At(p, "reject", 2)
    /\ LET a == call[p].a
           res == ResolveCheck(a, p) IN
        IF res # "ok"
        THEN /\ Returns(p, "reject", res, None)
             /\ UNCHANGED approvals
        ELSE /\ approvals' = [approvals EXCEPT ![a].status = "rejected"]
             /\ Goes(p, [call[p] EXCEPT !.pc = 3, !.w = approvals[a].work_item_id,
                                         !.who = approvals[a].requester_id])
    /\ UNCHANGED <<participants, work_items, work_queues, approval_queues, events>>

Reject3(p) ==
    /\ At(p, "reject", 3)
    /\ ItemsFree
    /\ work_items' = RejectItem(work_items, call[p].w)
    /\ Goes(p, [call[p] EXCEPT !.pc = 4])
    /\ UNCHANGED <<participants, approvals, work_queues, approval_queues, events>>

\* Section 4, under work_queues.write: back onto the requester's queue for rework.
Reject4(p) ==
    /\ At(p, "reject", 4)
    /\ work_queues' = Push(work_queues, call[p].who, call[p].w)
    /\ Goes(p, [call[p] EXCEPT !.pc = 5])
    /\ UNCHANGED <<participants, work_items, approvals, approval_queues, events>>

Reject5(p) ==
    /\ At(p, "reject", 5)
    /\ approval_queues' = Retain(approval_queues, p, call[p].a)
    /\ Goes(p, [call[p] EXCEPT !.pc = 6])
    /\ UNCHANGED <<participants, work_items, approvals, work_queues, events>>

Reject6(p) ==
    /\ At(p, "reject", 6)
    /\ Broadcast(call[p].w, "WorkRejected")
    /\ Returns(p, "reject", "ok", "WorkRejected")
    /\ UNCHANGED <<participants, work_items, approvals, work_queues, approval_queues>>


(***************************************************************************)
(* cancel_work                                                             *)
(***************************************************************************)
CancelCheckAnyone(w, canceller_id) ==
    IF w \notin 1..Len(work_items) THEN "WorkItemNotFound"
    ELSE IF is_terminal(work_items[w].status) THEN "InvalidStateTransition"
    ELSE "ok"

CancelCheck(w, canceller_id) ==
    IF w \notin 1..Len(work_items) THEN "WorkItemNotFound"
    ELSE IF work_items[w].delegator_id # canceller_id THEN "NotAuthorized"
    ELSE IF is_terminal(work_items[w].status) THEN "InvalidStateTransition"
    ELSE "ok"

Cancel1(p, w) ==
    /\ CanBegin(p)
    /\ ItemsFree
    /\ LET res == CancelCheck(w, p) IN
        IF res # "ok"
        THEN /\ Returns(p, "cancel", res, None)
             /\ UNCHANGED work_items
        ELSE /\ work_items' = SetStatus(work_items, w, "cancelled")
             /\ Goes(p, [Idle EXCEPT !.op = "cancel", !.pc = 2, !.w = w,
                                      !.who = work_items[w].assignee_id])
    /\ UNCHANGED <<participants, approvals, work_queues, approval_queues, events>>

\* Section 2, under work_queues.write: remove from the queue of the assignee
\* the item had when it was cancelled.
Cancel2(p) ==
    /\ At(p, "cancel", 2)
    /\ work_queues' = Retain(work_queues, call[p].who, call[p].w)
    /\ Goes(p, [call[p] EXCEPT !.pc = 3])
    /\ UNCHANGED <<participants, work_items, approvals, approval_queues, events>>

Cancel3(p) ==
    /\ At(p, "cancel", 3)
    /\ Broadcast(call[p].w, "WorkCancelled")
    /\ Returns(p, "cancel", "ok", "WorkCancelled")
    /\ UNCHANGED <<participants, work_items, approvals, work_queues, approval_queues>>

(***************************************************************************)
(* claim_work                                                              *)
(***************************************************************************)
ClaimerCheck(claimer_id) ==
    IF claimer_id \notin DOMAIN participants THEN "ParticipantNotFound"
    ELSE IF ~can_receive_work(participants[claimer_id]) THEN "NotAcceptingWork"
    ELSE "ok"

ClaimCheck(w) ==
    IF w \notin 1..Len(work_items) THEN "WorkItemNotFound"
    ELSE IF work_items[w].status # "pending" THEN "InvalidStateTransition"
    ELSE "ok"

\* Section 1, under participants.read.
Claim1(p, w) ==
    /\ CanBegin(p)
    /\ LET res == ClaimerCheck(p) IN
        IF res # "ok"
        THEN Returns(p, "claim", res, None)
        ELSE Goes(p, [Idle EXCEPT !.op = "claim", !.pc = 2, !.w = w])
    /\ UNCHANGED <<participants, work_items, approvals, work_queues, approval_queues, events>>

\* Section 2 takes work_items.write and checks the status; the guard is kept.
Claim2(p) ==
    /\ At(p, "claim", 2)
    /\ ItemsFree
    /\ LET w == call[p].w
           res == ClaimCheck(w) IN
        IF res # "ok"
        THEN Returns(p, "claim", res, None)
        ELSE Goes(p, [call[p] EXCEPT !.pc = 3, !.who = work_items[w].assignee_id])
    /\ UNCHANGED <<participants, work_items, approvals, work_queues, approval_queues, events>>

\* Still holding work_items.write, under work_queues.write: remove from the old
\* assignee's queue; then reassign and drop both guards.
Claim3(p) ==
    /\ At(p, "claim", 3)
    /\ work_queues' = Retain(work_queues, call[p].who, call[p].w)
    /\ work_items' = [work_items EXCEPT ![call[p].w].assignee_id = p]
    /\ Goes(p, [call[p] EXCEPT !.pc = 4])
    /\ UNCHANGED <<participants, approvals, approval_queues, events>>

\* Section 4, under work_queues.write again: append to the claimer's queue.
Claim4(p) ==
    /\ At(p, "claim", 4)
    /\ work_queues' = Push(work_queues, p, call[p].w)
    /\ Goes(p, [call[p] EXCEPT !.pc = 5])
    /\ UNCHANGED <<participants, work_items, approvals, approval_queues, events>>

Claim5(p) ==
    /\ At(p, "claim", 5)
    /\ Broadcast(call[p].w, "WorkClaimed")
    /\ Returns(p, "claim", "ok", "WorkClaimed")
    /\ UNCHANGED <<participants, work_items, approvals, work_queues, approval_queues>>

(***************************************************************************)
(* The engine: DelegationManager::new, and one step of any call.           *)
(***************************************************************************)
Init ==
    /\ participants = <<>>
    /\ work_items = <<>>
    /\ approvals = <<>>
    /\ work_queues = <<>>
    /\ approval_queues = <<>>
    /\ events = <<>>
    /\ call = [p \in ParticipantIds |-> Idle]
    /\ last = [res |-> "ok", ev |-> None]
    /\ block_status = None
    /\ block_content = <<>>
    /\ full_content = <<>>
    /\ frames = <<>>
    /\ pipe = "idle"
    /\ consumed = 0
    /\ cancels = 0
    /\ late_deltas = -1
    /\ rooms = [j \in Journals |-> 0]
    /\ members = <<>>
    /\ docs = <<>>
    /\ room_events = <<>>
    /\ relays = <<>>
    /\ subscriptions = [c \in Connections |-> [j \in Journals |-> NoPid]]
    /\ delegation_registrations = [c \in Connections |-> [j \in Journals |-> None]]
    /\ registered_by = <<>>
    /\ handler = [c \in Connections |-> Listening]
    /\ relayed = [c \in Connections |-> {}]
    /\ sink = [c \in Connections |-> "open"]
    /\ write_failed = [c \in Connections |-> FALSE]
    /\ replies = [c \in Connections |-> <<>>]
    /\ blocks = <<>>
    /\ now = 0
    /\ store_result = None
    /\ payload = <<>>
    /\ sse = [buffer |-> <<>>, data |-> <<>>, yielded |-> <<>>]
    /\ received = <<>>
    /\ reader = [event_type |-> None, data |-> <<>>, yielded |-> <<>>]
    /\ original = <<>>
    /\ decoded = [ok |-> TRUE, bytes |-> <<>>]
    /\ replica = [r \in {"A", "B"} |-> [items |-> {}, deleted |-> {}]]
    /\ exchanged = {}
    /\ tasks = [t \in {"t1", "t2"} |-> [op |-> "idle", pc |-> 1]]
    /\ snapshots = <<>>
    /\ journal_registrations = <<>>
    /\ executed = [type |-> "none", party |-> None, as |-> None, res |-> "none"]

Next ==
    \E p \in ParticipantIds :
        \/ register_participant(p)
        \/ \E assignee_id \in ParticipantIds, approver_id \in ParticipantIds \cup {None} :
                \/ Delegate1(p, assignee_id, TRUE, approver_id)
                \/ approver_id = None /\ Delegate1(p, assignee_id, FALSE, approver_id)
        \/ Delegate2(p) \/ Delegate3(p) \/ Delegate4(p)
        \/ \E w \in ItemArgs :
                \/ accept_work(p, w)
                \/ Decline1(p, w)
                \/ Submit1(p, w)
                \/ Cancel1(p, w)
                \/ Claim1(p, w)
        \/ Decline2(p) \/ Decline3(p)
        \/ Submit2(p) \/ Submit3(p) \/ Submit4(p) \/ Submit5(p)
        \/ \E a \in ApprovalArgs : Approve1(p, a) \/ Reject1(p, a)
        \/ Approve2(p) \/ Approve3(p) \/ Approve4(p) \/ Approve5(p)
        \/ Reject2(p) \/ Reject3(p) \/ Reject4(p) \/ Reject5(p) \/ Reject6(p)
        \/ Cancel2(p) \/ Cancel3(p)
        \/ Claim2(p) \/ Claim3(p) \/ Claim4(p) \/ Claim5(p)

\* Calls interleave section by section.
Spec == Init /\ [][Next]_vars

\* No call is between two of its sections.
Settled == InFlight = {}

\* One call at a time: a call begins only when the one before it has returned.
SeqNext ==
    \E p \in ParticipantIds :
        \/ Settled /\ register_participant(p)
        \/ \E assignee_id \in ParticipantIds, approver_id \in ParticipantIds \cup {None} :
                \/ Settled /\ Delegate1(p, assignee_id, TRUE, approver_id)
                \/ Settled /\ approver_id = None /\ Delegate1(p, assignee_id, FALSE, approver_id)
        \/ Delegate2(p) \/ Delegate3(p) \/ Delegate4(p)
        \/ \E w \in ItemArgs :
                \/ Settled /\ accept_work(p, w)
                \/ Settled /\ Decline1(p, w)
                \/ Settled /\ Submit1(p, w)
                \/ Settled /\ Cancel1(p, w)
                \/ Settled /\ Claim1(p, w)
        \/ Decline2(p) \/ Decline3(p)
        \/ Submit2(p) \/ Submit3(p) \/ Submit4(p) \/ Submit5(p)
        \/ \E a \in ApprovalArgs : (Settled /\ Approve1(p, a)) \/ (Settled /\ Reject1(p, a))
        \/ Approve2(p) \/ Approve3(p) \/ Approve4(p) \/ Approve5(p)
        \/ Reject2(p) \/ Reject3(p) \/ Reject4(p) \/ Reject5(p) \/ Reject6(p)
        \/ Cancel2(p) \/ Cancel3(p)
        \/ Claim2(p) \/ Claim3(p) \/ Claim4(p) \/ Claim5(p)

SeqSpec == Init /\ [][SeqNext]_vars

(***************************************************************************)
(* Two work items between two participants, one call at a time: enough to  *)
(* see the order of a work queue.                                          *)
(***************************************************************************)
QueueParticipants == {"alice", "bob"}

QueuedBudget == Len(work_items) < MaxQueued

FifoNext ==
    \E p \in QueueParticipants :
        \/ Settled /\ register_participant(p)
        \/ \E assignee_id \in QueueParticipants :
                Settled /\ QueuedBudget /\ DelegateBegin(p, assignee_id, TRUE, None)
        \/ Delegate2(p) \/ Delegate3(p) \/ Delegate4(p)
        \/ \E w \in KnownItems :
                \/ Settled /\ accept_work(p, w)
                \/ Settled /\ Decline1(p, w)
                \/ Settled /\ Submit1(p, w)
                \/ Settled /\ Cancel1(p, w)
                \/ Settled /\ Claim1(p, w)
        \/ Decline2(p) \/ Decline3(p)
        \/ Submit2(p) \/ Submit3(p) \/ Submit4(p) \/ Submit5(p)
        \/ \E a \in KnownApprovals : (Settled /\ Approve1(p, a)) \/ (Settled /\ Reject1(p, a))
        \/ Approve2(p) \/ Approve3(p) \/ Approve4(p) \/ Approve5(p)
        \/ Reject2(p) \/ Reject3(p) \/ Reject4(p) \/ Reject5(p) \/ Reject6(p)
        \/ Cancel2(p) \/ Cancel3(p)
        \/ Claim2(p) \/ Claim3(p) \/ Claim4(p) \/ Claim5(p)

FifoSpec == Init /\ [][FifoNext]_vars

(***************************************************************************)
(* The engine called directly (DelegationManager is a public type of the  *)
(* crate): participants come and go, and delegate is called with ids of    *)
(* any kind, registered or not.                                            *)
(***************************************************************************)
DelegateDirect(delegator_id, assignee_id) ==
    /\ call[delegator_id].op = "idle"
    /\ InFlight = {}
    /\ ItemsBudget
    /\ LET res == DelegateCheck(delegator_id, assignee_id) IN
        IF res # "ok"
        THEN Returns(delegator_id, "delegate", res, None)
        ELSE Goes(delegator_id, [Idle EXCEPT !.op = "delegate", !.pc = 2, !.who = assignee_id])
    /\ UNCHANGED <<participants, work_items, approvals, work_queues, approval_queues, events>>

RegistryNext ==
    \E p \in ParticipantIds :
        \/ Settled /\ register_participant(p)
        \/ Settled /\ unregister_participant(p)
        \/ \E accepting \in BOOLEAN : Settled /\ set_accepting_work(p, accepting)
        \/ \E assignee_id \in ParticipantIds : DelegateDirect(p, assignee_id)
        \/ Delegate2(p) \/ Delegate3(p) \/ Delegate4(p)

RegistrySpec == Init /\ [][RegistryNext]_vars

(***************************************************************************)
(* Delegation while participants come and go: each connection is a task of *)
(* its own, so a participant can be unregistered (its connection ended) or *)
(* stop accepting work between two lock sections of another's delegate.    *)
(***************************************************************************)
ChurnNext ==
    \E p \in ParticipantIds :
        \/ register_participant(p)
        \/ unregister_participant(p)
        \/ \E accepting \in BOOLEAN : set_accepting_work(p, accepting)
        \/ \E assignee_id \in ParticipantIds : Delegate1(p, assignee_id, FALSE, None)
        \/ Delegate2(p) \/ Delegate3(p) \/ Delegate4(p)

ChurnSpec == Init /\ [][ChurnNext]_vars

(***************************************************************************)
(* Part II.  The streaming-response pipeline.                              *)
(*                                                                         *)
(* The connection handler runs the pipeline inline, holding the lock of    *)
(* its outbound sink: until the pipeline returns, the originating          *)
(* connection dispatches no other frame.  Another connection that knows    *)
(* the block's id can have its Cancel handled at any time.  Store calls    *)
(* are taken to succeed, and so are sink writes other than a delta's.      *)
(***************************************************************************)
\* The delta texts the upstream sends.
Texts == {"a", "b"}

\* The text of a whole response.
ResponseText == "response"

\* The message of an upstream session.error event.
ErrorText == "session error"

Frame(type, arg) == [type |-> type, arg |-> arg]

Send(frame) == frames' = Append(frames, frame)

\* Submit, Fork, Rerun: the user (or forked) block and its frame, then the
\* assistant block, born pending, and its BlockCreated frame.
CreateBlocks ==
    /\ pipe = "idle"
    /\ block_status' = "pending"
    /\ block_content' = <<>>
    /\ frames' = frames \o <<Frame("BlockCreated", "user"), Frame("BlockCreated", "assistant")>>
    /\ pipe' = "session"
    /\ UNCHANGED <<dvars, rvars, svars, xvars, full_content, consumed, cancels, late_deltas>>

\* The dispatcher's reply when the pipeline returns an error.
Fails ==
    /\ Send(Frame("Error", "upstream"))
    /\ pipe' = "returned"

\* "Get or create session": a request that carries no session id asks the
\* upstream for one, which can fail.
GetSession(ok) ==
    /\ pipe = "session"
    /\ IF ok THEN pipe' = "start" /\ UNCHANGED frames ELSE Fails
    /\ UNCHANGED <<dvars, rvars, svars, xvars, block_status, block_content, full_content, consumed, cancels, late_deltas>>

\* update_block_status(Streaming) and its frame.
StartStreaming ==
    /\ pipe = "start"
    /\ block_status' = "streaming"
    /\ Send(Frame("BlockStatusChanged", "streaming"))
    /\ pipe' = "send"
    /\ UNCHANGED <<dvars, rvars, svars, xvars, block_content, full_content, consumed, cancels, late_deltas>>

\* opencode.send_message: GET /event, then POST prompt_async; either can fail.
SendMessage(ok) ==
    /\ pipe = "send"
    /\ IF ok THEN pipe' = "loop" /\ UNCHANGED frames ELSE Fails
    /\ UNCHANGED <<dvars, rvars, svars, xvars, block_status, block_content, full_content, consumed, cancels, late_deltas>>

\* stream.next() yields an event; the /event stream is long-lived and goes on
\* after session.idle and session.error.
Takes ==
    /\ pipe = "loop"
    /\ consumed < MaxEvents
    /\ consumed' = consumed + 1

\* A Content arm that writes the delta and forgets to accumulate it.
OnContentUnaccumulated(text) ==
    /\ Takes
    /\ Send(Frame("BlockContentDelta", text))
    /\ late_deltas' = IF late_deltas >= 0 THEN late_deltas + 1 ELSE late_deltas
    /\ UNCHANGED <<dvars, rvars, svars, xvars, block_status, block_content, full_content, pipe, cancels>>

OnContent(text) ==
    /\ Takes
    /\ full_content' = Append(full_content, text)
    /\ Send(Frame("BlockContentDelta", text))
    /\ late_deltas' = IF late_deltas >= 0 THEN late_deltas + 1 ELSE late_deltas
    /\ UNCHANGED <<dvars, rvars, svars, xvars, block_status, block_content, pipe, cancels>>

\* Content whose delta frame cannot be written: the text is already in
\* full_content, the `?` returns the error to the Submit arm, and the arm's
\* Error frame goes to the same sink (written: the arm's write succeeds).
OnContentUnsent(text, written) ==
    /\ Takes
    /\ full_content' = Append(full_content, text)
    /\ IF written THEN Fails ELSE pipe' = "returned" /\ UNCHANGED frames
    /\ UNCHANGED <<dvars, rvars, svars, xvars, block_status, block_content, cancels, late_deltas>>

\* Done: update_block_content(full_content) ...
OnDone ==
    /\ Takes
    /\ block_content' = full_content
    /\ pipe' = "done"
    /\ UNCHANGED <<dvars, rvars, svars, xvars, block_status, full_content, frames, cancels, late_deltas>>

\* ... then update_block_status(Complete) and its frame; the loop goes on.
OnDoneStatus ==
    /\ pipe = "done"
    /\ block_status' = "complete"
    /\ Send(Frame("BlockStatusChanged", "complete"))
    /\ pipe' = "loop"
    /\ UNCHANGED <<dvars, rvars, svars, xvars, block_content, full_content, consumed, cancels, late_deltas>>

\* Error: update_block_content(message) ...
OnError ==
    /\ Takes
    /\ block_content' = <<ErrorText>>
    /\ pipe' = "error"
    /\ UNCHANGED <<dvars, rvars, svars, xvars, block_status, full_content, frames, cancels, late_deltas>>

\* ... then update_block_status(Error) and its frame; the loop goes on.
OnErrorStatus ==
    /\ pipe = "error"
    /\ block_status' = "error"
    /\ Send(Frame("BlockStatusChanged", "error"))
    /\ pipe' = "loop"
    /\ UNCHANGED <<dvars, rvars, svars, xvars, block_content, full_content, consumed, cancels, late_deltas>>

OnUnknown ==
    /\ Takes
    /\ UNCHANGED <<dvars, rvars, svars, xvars, block_status, block_content, full_content, frames, pipe, cancels, late_deltas>>

\* Err(e), an event that does not parse or a failed read of the response body:
\* update_block_status(Error), and no frame.
OnStreamError ==
    /\ Takes
    /\ block_status' = "error"
    /\ UNCHANGED <<dvars, rvars, svars, xvars, block_content, full_content, frames, pipe, cancels, late_deltas>>

\* stream.next() yields None (the upstream closed the response, or a read of
\* it failed): the loop ends and the pipeline returns Ok.
StreamEnds ==
    /\ pipe = "loop"
    /\ pipe' = "returned"
    /\ UNCHANGED <<dvars, rvars, svars, xvars, block_status, block_content, full_content, frames, consumed, cancels, late_deltas>>

\* handle_cancel for the block, from connection c: update_block_status(Error)
\* whatever the status is, and BlockCancelled to c.
handle_cancel(c) ==
    /\ block_status # None
    /\ c = "origin" => pipe = "returned"
    /\ cancels < MaxCancels
    /\ cancels' = cancels + 1
    /\ block_status' = "error"
    /\ late_deltas' = IF late_deltas < 0 /\ block_status = "streaming" THEN 0 ELSE late_deltas
    /\ IF c = "origin" THEN Send(Frame("BlockCancelled", "assistant")) ELSE UNCHANGED frames
    /\ UNCHANGED <<dvars, rvars, svars, xvars, block_content, full_content, pipe, consumed>>

PipelineNext ==
    \/ CreateBlocks
    \/ \E ok \in BOOLEAN : GetSession(ok) \/ SendMessage(ok)
    \/ StartStreaming
    \/ \E text \in Texts : OnContent(text)
    \/ \E text \in Texts, written \in BOOLEAN : OnContentUnsent(text, written)
    \/ OnDone \/ OnDoneStatus
    \/ OnError \/ OnErrorStatus
    \/ OnUnknown
    \/ OnStreamError
    \/ StreamEnds
    \/ \E c \in Connections : handle_cancel(c)

PipelineSpec == Init /\ [][PipelineNext]_vars

(***************************************************************************)
(* Part III.  Journal rooms and presence.                                  *)
(*                                                                         *)
(* A room object is created by get_or_create and lives as long as someone  *)
(* holds a handle on it, whether or not the manager still maps its journal *)
(* to it.  A connection's handler takes its frames one at a time; the      *)
(* relay tasks it spawned run beside it.                                   *)
(***************************************************************************)
RoomIds == 1..Len(members)

\* The updates clients send: one that decodes (Update::decode_v1) and one
\* that does not.
Updates == {"update", "garbage"}

Decodes(update) == update = "update"

\* Participant::new: active, seen now.  idle_for is the time since last_seen_at.
Participant == [status |-> "active", idle_for |-> 0]

touch(participant) ==
    [status |-> IF participant.status = "idle" THEN "active" ELSE participant.status,
     idle_for |-> 0]

mark_idle(participant) == [participant EXCEPT !.status = "idle"]

mark_disconnected(participant) == [participant EXCEPT !.status = "disconnected"]

is_stale(participant, timeout) == participant.idle_for > timeout

\* A RoomEvent: pid is the participant it is about (the source, for a
\* CrdtUpdate; NoPid: none); from is the connection whose frame caused it
\* (None: no connection did).
RoomEvent(type, pid, arg, from) == [type |-> type, pid |-> pid, arg |-> arg, from |-> from]

\* event_tx.send of a sequence of events: every receiver subscribed to the
\* room gets them, in order.
SendAll(r, evs) ==
    /\ room_events' = [room_events EXCEPT ![r] = @ \cup {evs[i] : i \in 1..Len(evs)}]
    /\ relays' = [i \in DOMAIN relays |->
                    IF relays[i].room = r /\ relays[i].running
                    THEN [relays[i] EXCEPT !.inbox = @ \o evs]
                    ELSE relays[i]]

RoomSend(r, ev) == SendAll(r, <<ev>>)

\* Participants ever created by c's Subscribe frames (each spawned a relay).
Joined(c) == Cardinality({i \in DOMAIN relays : relays[i].conn = c})

JoinsBudget ==
    Len(relays) + Cardinality({c \in Connections : handler[c].pc # "listening"}) < MaxJoins

\* Every receiver of the room can take one more event.
InboxBudget(r) ==
    \A i \in DOMAIN relays :
        relays[i].room = r /\ relays[i].running => Len(relays[i].inbox) < MaxInbox

AtFrame(c) == handler[c].pc = "listening"

\* handle_subscribe, first step: room_manager.get_or_create(journal_id).
get_or_create(c, j) ==
    /\ AtFrame(c)
    /\ JoinsBudget
    /\ IF rooms[j] # 0
       THEN /\ handler' = [handler EXCEPT ![c] =
                              [pc |-> "joining", journal |-> j, room |-> rooms[j], pid |-> NoPid]]
            /\ UNCHANGED <<rooms, members, docs, room_events>>
       ELSE /\ Len(members) < MaxRooms
            /\ rooms' = [rooms EXCEPT ![j] = Len(members) + 1]
            /\ members' = Append(members, <<>>)
            /\ docs' = Append(docs, {})
            /\ room_events' = Append(room_events, {})
            /\ handler' = [handler EXCEPT ![c] =
                              [pc |-> "joining", journal |-> j, room |-> Len(members) + 1,
                               pid |-> NoPid]]
    /\ UNCHANGED <<dvars, pvars, svars, xvars, relays, subscriptions, delegation_registrations,
                   registered_by, relayed>>

\* handle_subscribe, second step: room.join on the handle it got, then
\* conn.subscriptions.insert(journal_id, participant_id).
join(c) ==
    /\ handler[c].pc = "joining"
    /\ LET r == handler[c].room
           pid == [conn |-> c, n |-> Joined(c) + 1]
       IN /\ members' = [members EXCEPT ![r] = Put(@, pid, Participant)]
          /\ RoomSend(r, RoomEvent("ParticipantJoined", pid, None, c))
          /\ subscriptions' = [subscriptions EXCEPT ![c][handler[c].journal] = pid]
          /\ handler' = [handler EXCEPT ![c].pc = "joined", ![c].pid = pid]
    /\ UNCHANGED <<dvars, pvars, svars, xvars, rooms, docs, delegation_registrations, registered_by, relayed>>

\* handle_subscribe, last step: room.subscribe() and the spawn of the relay
\* task, which keeps the participant id of this Subscribe.
SpawnRelay(c) ==
    /\ handler[c].pc = "joined"
    /\ relays' = Append(relays, [conn |-> c, pid |-> handler[c].pid, room |-> handler[c].room,
                                 inbox |-> <<>>, running |-> TRUE])
    /\ handler' = [handler EXCEPT ![c] = Listening]
    /\ UNCHANGED <<dvars, pvars, svars, xvars, rooms, members, docs, room_events, subscriptions,
                   delegation_registrations, registered_by, relayed>>

\* The relay's filter: its own join, its own cursor moves, updates whose
\* source is its participant.
Suppressed(relay, ev) ==
    /\ ev.type \in {"ParticipantJoined", "CursorMoved", "CrdtUpdate"}
    /\ ev.pid = relay.pid

\* One turn of a relay task's loop: room_rx.recv(), the filter, the write to
\* the connection.  A write to a connection that has ended fails and ends
\* the task.
RelayForward(i) ==
    /\ relays[i].running
    /\ relays[i].inbox # <<>>
    /\ LET ev == Head(relays[i].inbox)
           c == relays[i].conn
       IN IF Suppressed(relays[i], ev)
          THEN /\ relays' = [relays EXCEPT ![i].inbox = Tail(@)]
               /\ UNCHANGED relayed
          ELSE IF handler[c].pc = "closed" \/ sink[c] # "open"
          THEN /\ relays' = [relays EXCEPT ![i].running = FALSE, ![i].inbox = <<>>]
               /\ UNCHANGED relayed
          ELSE /\ relays' = [relays EXCEPT ![i].inbox = Tail(@)]
               /\ relayed' = [relayed EXCEPT ![c] = @ \cup {ev}]
    /\ UNCHANGED <<dvars, pvars, svars, xvars, rooms, members, docs, room_events, subscriptions,
                   delegation_registrations, registered_by, handler>>

\* JournalRoom::leave on the rooms in leaving (room -> participant id): the
\* participant is removed if it is there, and ParticipantLeft sent if it was.
Leave(leaving) ==
    LET Gone(r) == r \in DOMAIN leaving /\ leaving[r] \in DOMAIN members[r]
    IN /\ members' = [r \in DOMAIN members |->
                        IF Gone(r) THEN Drop(members[r], leaving[r]) ELSE members[r]]
       /\ room_events' = [r \in DOMAIN room_events |->
                        IF Gone(r)
                        THEN room_events[r] \cup {RoomEvent("ParticipantLeft", leaving[r], None, None)}
                        ELSE room_events[r]]
       /\ relays' = [i \in DOMAIN relays |->
                        IF Gone(relays[i].room) /\ relays[i].running
                        THEN [relays[i] EXCEPT !.inbox =
                                Append(@, RoomEvent("ParticipantLeft", leaving[relays[i].room], None, None))]
                        ELSE relays[i]]

\* The rooms room_manager.get finds for c's subscriptions, with the
\* participant id recorded for each.
SubscribedRooms(c, journals) ==
    LET found == {j \in journals : subscriptions[c][j] # NoPid /\ rooms[j] # 0}
    IN [r \in {rooms[j] : j \in found} |->
            subscriptions[c][CHOOSE j \in found : rooms[j] = r]]

handle_unsubscribe(c, j) ==
    /\ AtFrame(c)
    /\ subscriptions' = [subscriptions EXCEPT ![c][j] = NoPid]
    /\ Leave(SubscribedRooms(c, {j}))
    /\ UNCHANGED <<dvars, pvars, svars, xvars, rooms, docs, delegation_registrations, registered_by,
                   handler, relayed>>

\* The Cursor frame: room.update_cursor for the participant on record.
update_cursor(c, j) ==
    /\ AtFrame(c)
    /\ subscriptions[c][j] # NoPid
    /\ rooms[j] # 0
    /\ InboxBudget(rooms[j])
    /\ LET r == rooms[j]
           pid == subscriptions[c][j]
       IN IF pid \in DOMAIN members[r]
          THEN /\ members' = [members EXCEPT ![r][pid] = touch(@)]
               /\ RoomSend(r, RoomEvent("CursorMoved", pid, None, c))
          ELSE UNCHANGED <<members, room_events, relays>>
    /\ UNCHANGED <<dvars, pvars, svars, xvars, rooms, docs, subscriptions, delegation_registrations,
                   registered_by, handler, relayed>>

\* As apply_update, but the event is sent whatever doc.apply_update returned.
ApplyUpdateUnchecked(c, j, update) ==
    /\ AtFrame(c)
    /\ rooms[j] # 0
    /\ InboxBudget(rooms[j])
    /\ LET r == rooms[j] IN
        /\ docs' = [docs EXCEPT ![r] = IF Decodes(update) THEN @ \cup {update} ELSE @]
        /\ RoomSend(r, RoomEvent("CrdtUpdate", subscriptions[c][j], update, c))
    /\ UNCHANGED <<dvars, pvars, svars, xvars, rooms, members, subscriptions, delegation_registrations,
                   registered_by, handler, relayed>>

\* The CrdtUpdate frame: room.apply_update(source, update), the source being
\* the participant on record for the journal, if any.  doc.apply_update
\* returns the decoding error before anything is sent.
apply_update(c, j, update) ==
    /\ AtFrame(c)
    /\ rooms[j] # 0
    /\ InboxBudget(rooms[j])
    /\ LET r == rooms[j] IN
        IF Decodes(update)
        THEN /\ docs' = [docs EXCEPT ![r] = @ \cup {update}]
             /\ RoomSend(r, RoomEvent("CrdtUpdate", subscriptions[c][j], update, c))
        ELSE UNCHANGED <<docs, room_events, relays>>
    /\ UNCHANGED <<dvars, pvars, svars, xvars, rooms, members, subscriptions, delegation_registrations,
                   registered_by, handler, relayed>>

\* The RegisterParticipant frame: a fresh registered participant, recorded
\* under the journal the frame names.
RegisterParticipant(c, j, p) ==
    /\ AtFrame(c)
    /\ Registers(p)
    /\ delegation_registrations' = [delegation_registrations EXCEPT ![c][j] = p]
    /\ registered_by' = Put(registered_by, p, c)
    /\ UNCHANGED <<work_items, approvals, events, call, last, pvars, svars, xvars, rooms, members, docs,
                   room_events, relays, subscriptions, handler, relayed>>

\* RoomManager::cleanup_empty_rooms, under rooms.write: every entry whose
\* room has no participant is removed.
cleanup_empty_rooms ==
    /\ rooms' = [j \in Journals |->
                    IF rooms[j] # 0 /\ DOMAIN members[rooms[j]] = {} THEN 0 ELSE rooms[j]]
    /\ UNCHANGED <<dvars, pvars, svars, xvars, members, docs, room_events, relays, subscriptions,
                   delegation_registrations, registered_by, handler, relayed>>

\* The connection ends (Close frame, socket error or end of the stream): the
\* loop exits and the rooms on record are left.
LeaveRooms(c) ==
    /\ AtFrame(c)
    /\ Leave(SubscribedRooms(c, Journals))
    /\ handler' = [handler EXCEPT ![c].pc = "unregistering"]
    /\ UNCHANGED <<dvars, pvars, svars, xvars, rooms, docs, subscriptions, delegation_registrations,
                   registered_by, relayed>>

\* ... then the registrations on record are unregistered, and the task ends.
UnregisterAll(c) ==
    /\ handler[c].pc = "unregistering"
    /\ participants' = [p \in DOMAIN participants \
                              {delegation_registrations[c][j] : j \in Journals} |->
                            participants[p]]
    /\ handler' = [handler EXCEPT ![c].pc = "closed"]
    /\ UNCHANGED <<work_items, approvals, work_queues, approval_queues, events, call, last,
                   pvars, svars, xvars, rooms, members, docs, room_events, relays, subscriptions,
                   delegation_registrations, registered_by, relayed>>

\* Time passes: every participant's last_seen_at is one unit further back.
Elapse ==
    /\ \E r \in RoomIds : \E pid \in DOMAIN members[r] : members[r][pid].idle_for < MaxIdle
    /\ members' = [r \in DOMAIN members |->
                      [pid \in DOMAIN members[r] |->
                          [members[r][pid] EXCEPT !.idle_for = IF @ < MaxIdle THEN @ + 1 ELSE @]]]
    /\ UNCHANGED <<dvars, pvars, svars, xvars, rooms, docs, room_events, relays, subscriptions,
                   delegation_registrations, registered_by, handler, relayed>>

\* The timeouts a sweep is called with, the idle one the shorter.
Timeouts == 0..(MaxIdle - 1)

\* What the body of the sweep's loop makes of one participant.
Swept(participant, idle_timeout, disconnect_timeout) ==
    IF is_stale(participant, disconnect_timeout) /\ participant.status # "disconnected"
    THEN mark_disconnected(participant)
    ELSE IF is_stale(participant, idle_timeout) /\ participant.status = "active"
    THEN mark_idle(participant)
    ELSE participant

\* The orders in which a loop over a hash map can visit the keys in S.
Orders(S) ==
    {order \in [1..Cardinality(S) -> S] :
        \A a, b \in 1..Cardinality(S) : a # b => order[a] # order[b]}

\* JournalRoom::cleanup_stale_participants on room r, under participants.write:
\* a StatusChanged is sent for each participant a branch of the loop changed.
cleanup_stale_participants(r, idle_timeout, disconnect_timeout) ==
    LET after == [pid \in DOMAIN members[r] |->
                     Swept(members[r][pid], idle_timeout, disconnect_timeout)]
        changed == {pid \in DOMAIN members[r] : after[pid] # members[r][pid]}
    IN /\ changed # {}
       /\ InboxBudget(r)
       /\ members' = [members EXCEPT ![r] = after]
       /\ \E order \in Orders(changed) :
              SendAll(r, [a \in 1..Cardinality(changed) |->
                            RoomEvent("StatusChanged", order[a], after[order[a]].status, None)])
       /\ UNCHANGED <<dvars, pvars, svars, xvars, rooms, docs, subscriptions, delegation_registrations,
                      registered_by, handler, relayed>>

\* Subscriptions, registrations, the reclaiming of rooms and the end of
\* connections.
RoomNext ==
    \/ \E c \in Connections, j \in Journals :
            \/ get_or_create(c, j)
            \/ handle_unsubscribe(c, j)
            \/ \E p \in ParticipantIds : RegisterParticipant(c, j, p)
    \/ \E c \in Connections : join(c) \/ SpawnRelay(c) \/ LeaveRooms(c) \/ UnregisterAll(c)
    \/ cleanup_empty_rooms

RoomSpec == Init /\ [][RoomNext]_vars

\* Subscriptions, cursor moves, document updates and the relay tasks.
RelayNext ==
    \/ \E c \in Connections, j \in Journals :
            \/ get_or_create(c, j)
            \/ update_cursor(c, j)
            \/ \E update \in Updates : apply_update(c, j, update)
    \/ \E c \in Connections : join(c) \/ SpawnRelay(c)
    \/ \E i \in DOMAIN relays : RelayForward(i)

RelaySpec == Init /\ [][RelayNext]_vars

\* Subscriptions, cursor moves, the passing of time and the sweep of stale
\* participants.
PresenceNext ==
    \/ \E c \in Connections, j \in Journals : get_or_create(c, j) \/ update_cursor(c, j)
    \/ \E c \in Connections : join(c) \/ SpawnRelay(c)
    \/ \E i \in DOMAIN relays : RelayForward(i)
    \/ Elapse
    \/ \E r \in RoomIds, idle_timeout \in Timeouts, disconnect_timeout \in Timeouts :
            /\ idle_timeout < disconnect_timeout
            /\ cleanup_stale_participants(r, idle_timeout, disconnect_timeout)

PresenceSpec == Init /\ [][PresenceNext]_vars

(***************************************************************************)
(* Part IV.  Frames, replies and the outbound sink.                        *)
(*                                                                         *)
(* The handler's loop ends when the inbound half of the socket ends.  A    *)
(* write to the outbound half can fail while the inbound half still        *)
(* yields frames; the handler logs or drops the error of such a write.     *)
(***************************************************************************)
\* The peer stops taking what the server writes.
SinkBreaks(c) ==
    /\ sink[c] = "open"
    /\ handler[c].pc # "closed"
    /\ sink' = [sink EXCEPT ![c] = "broken"]
    /\ UNCHANGED <<dvars, pvars, rvars, xvars, write_failed, replies>>

RepliesBudget(c) == Len(replies[c]) < MaxReplies

\* sender.send(frame) by c's handler, its result logged or dropped.
Write(c, frame) ==
    IF sink[c] = "open"
    THEN /\ replies' = [replies EXCEPT ![c] = Append(@, frame)]
         /\ UNCHANGED write_failed
    ELSE /\ write_failed' = [write_failed EXCEPT ![c] = TRUE]
         /\ UNCHANGED replies

\* As ParseFailure, but the loop is left after the Error frame.
ParseFailureBreaks(c) ==
    /\ AtFrame(c)
    /\ RepliesBudget(c)
    /\ Write(c, "Error")
    /\ handler' = [handler EXCEPT ![c].pc = "unregistering"]
    /\ UNCHANGED <<dvars, pvars, xvars, rooms, members, docs, room_events, relays, subscriptions,
                   delegation_registrations, registered_by, relayed, sink>>

\* A text frame that serde_json does not parse as a ClientMessage: an Error
\* frame, then `continue`.
ParseFailure(c) ==
    /\ AtFrame(c)
    /\ RepliesBudget(c)
    /\ Write(c, "Error")
    /\ UNCHANGED <<dvars, pvars, rvars, xvars, sink>>

\* The GetPresence frame: the participants of the journal's room (none if
\* there is no room) in a Presence frame.
GetPresence(c, j) ==
    /\ AtFrame(c)
    /\ RepliesBudget(c)
    /\ Write(c, "Presence")
    /\ UNCHANGED <<dvars, pvars, rvars, xvars, sink>>

\* Frames with a reply, subscriptions and registrations, a sink that can
\* fail, and the end of connections.
DispatchNext ==
    \/ \E c \in Connections :
            \/ SinkBreaks(c)
            \/ ParseFailure(c)
            \/ join(c) \/ SpawnRelay(c) \/ LeaveRooms(c) \/ UnregisterAll(c)
    \/ \E c \in Connections, j \in Journals :
            \/ GetPresence(c, j)
            \/ get_or_create(c, j)
            \/ RegisterParticipant(c, j, "alice")

DispatchSpec == Init /\ [][DispatchNext]_vars

(***************************************************************************)
(* Part V.  The store of blocks, as the handlers of Submit, Fork and Rerun *)
(* and the pipeline use it.                                                *)
(*                                                                         *)
(* A row is never deleted.  created_at is Utc::now() at the call; the      *)
(* clock never runs backwards, and two calls can read the same instant.    *)
(***************************************************************************)
JournalIds == {"j1", "j2"}

\* Option<Uuid>::None in parent_id and forked_from_id.
NoBlock == 0

BlockIds == 1..MaxBlocks

create_block_with_lineage(bs, t, journal_id, block_type, content, parent_id, forked_from_id) ==
    Append(bs, [journal_id |-> journal_id, block_type |-> block_type, content |-> content,
                parent_id |-> parent_id, forked_from_id |-> forked_from_id, created_at |-> t])

create_block(bs, t, journal_id, block_type, content) ==
    create_block_with_lineage(bs, t, journal_id, block_type, content, NoBlock, NoBlock)

\* A fork that files the new block under the first journal.
ForkIntoFirstJournal(bs, t, block_id, content) ==
    create_block_with_lineage(bs, t, "j1", "user", content, block_id, block_id)

\* The new user block of a fork or rerun of block_id, carrying content.
ForkWithContent(bs, t, block_id, content) ==
    create_block_with_lineage(bs, t, bs[block_id].journal_id, "user", content, block_id, block_id)

\* fork_block, the source found.
fork_block(bs, t, block_id) == ForkWithContent(bs, t, block_id, bs[block_id].content)

\* The user blocks of the source's journal, whenever they were created.
UserBlocksOfJournal(bs, block_id) ==
    {u \in DOMAIN bs : /\ bs[u].journal_id = bs[block_id].journal_id
                        /\ bs[u].block_type = "user"}

\* The latest user blocks of the source's journal, earlier than the source or not.
LatestUserBlocks(bs, block_id) ==
    {u \in UserBlocksOfJournal(bs, block_id) :
        \A v \in UserBlocksOfJournal(bs, block_id) : bs[v].created_at <= bs[u].created_at}

\* rerun_block of an assistant block: the blocks that
\* blocks.iter().rev().find(..) can stop at.  Rows of equal created_at come
\* in an order ORDER BY created_at does not fix.
PrecedingUserBlocks(bs, block_id) ==
    LET earlier == {u \in UserBlocksOfJournal(bs, block_id) :
                        bs[u].created_at < bs[block_id].created_at}
    IN  {u \in earlier : \A v \in earlier : bs[v].created_at <= bs[u].created_at}

\* Some instant not before t and within the bound of the model.
Later(t) == {t2 \in t..(t + 1) : t2 <= MaxNow}

\* The handler's assistant block for a user block just created, unless the
\* frame that announces the user block could not be written.
WithAssistantBlock(bs, t, written, lineage) ==
    LET user_block == bs[Len(bs)] IN
    IF written
    THEN create_block_with_lineage(bs, t, user_block.journal_id, "assistant", "",
                                   IF lineage THEN Len(bs) ELSE NoBlock, NoBlock)
    ELSE bs

BlocksBudget == Len(blocks) + 2 <= MaxBlocks

\* handle_submit, up to the assistant block.
handle_submit(journal_id, content, written) ==
    /\ BlocksBudget
    /\ \E t \in Later(now) :
          /\ blocks' = WithAssistantBlock(create_block(blocks, now, journal_id, "user", content),
                                          t, written, FALSE)
          /\ now' = t
    /\ UNCHANGED <<dvars, pvars, rvars, svars, evars, fvars, gvars, cvars, lvars, nvars, avars, store_result>>

\* handle_fork, up to the assistant block.
handle_fork(block_id, written) ==
    /\ BlocksBudget
    /\ IF block_id \notin DOMAIN blocks
       THEN /\ store_result' = "NotFound"
            /\ UNCHANGED <<blocks, now>>
       ELSE \E t \in Later(now) :
              /\ blocks' = WithAssistantBlock(fork_block(blocks, now, block_id), t, written, TRUE)
              /\ now' = t
              /\ store_result' = "ok"
    /\ UNCHANGED <<dvars, pvars, rvars, svars, evars, fvars, gvars, cvars, lvars, nvars, avars>>

\* handle_rerun, up to the assistant block.
handle_rerun(block_id, written) ==
    /\ BlocksBudget
    /\ IF block_id \notin DOMAIN blocks
       THEN /\ store_result' = "NotFound"
            /\ UNCHANGED <<blocks, now>>
       ELSE IF blocks[block_id].block_type = "user"
       THEN \E t \in Later(now) :
              /\ blocks' = WithAssistantBlock(fork_block(blocks, now, block_id), t, written, TRUE)
              /\ now' = t
              /\ store_result' = "ok"
       ELSE IF PrecedingUserBlocks(blocks, block_id) = {}
       THEN /\ store_result' = "NotFound"
            /\ UNCHANGED <<blocks, now>>
       ELSE \E user_block \in PrecedingUserBlocks(blocks, block_id), t \in Later(now) :
              /\ blocks' = WithAssistantBlock(
                               ForkWithContent(blocks, now, block_id, blocks[user_block].content),
                               t, written, TRUE)
              /\ now' = t
              /\ store_result' = "ok"
    /\ UNCHANGED <<dvars, pvars, rvars, svars, evars, fvars, gvars, cvars, lvars, nvars, avars>>

\* The pipeline's update_block_content on the assistant block it streams into.
update_block_content(id, content) ==
    /\ id \in DOMAIN blocks
    /\ blocks[id].block_type = "assistant"
    /\ blocks[id].content # content
    /\ blocks' = [blocks EXCEPT ![id].content = content]
    /\ UNCHANGED <<dvars, pvars, rvars, svars, evars, fvars, gvars, cvars, lvars, nvars, avars, now, store_result>>

\* Time passes between two frames.
Tick ==
    /\ now < MaxNow
    /\ now' = now + 1
    /\ UNCHANGED <<dvars, pvars, rvars, svars, evars, fvars, gvars, cvars, lvars, nvars, avars, blocks, store_result>>

StoreNext ==
    \/ \E journal_id \in JournalIds, content \in Texts, written \in BOOLEAN :
          handle_submit(journal_id, content, written)
    \/ \E block_id \in BlockIds, written \in BOOLEAN :
          \/ handle_fork(block_id, written)
          \/ handle_rerun(block_id, written)
    \/ \E id \in BlockIds : update_block_content(id, ResponseText)
    \/ Tick

StoreSpec == Init /\ [][StoreNext]_vars

(***************************************************************************)
(* Part VI.  The reader of the upstream event stream.                      *)
(*                                                                         *)
(* The response body comes in chunks cut wherever the transport cuts them. *)
(* A byte is one of: "d", the field name `data:`; "x", an ASCII byte of a  *)
(* value; "hi" and "lo", the two bytes of a two-byte UTF-8 character;      *)
(* "cr" and "lf".  Lines of other fields are read and dropped like any     *)
(* line that is not a data line, and are left out.  What is yielded is     *)
(* parse_event of the data gathered, a function of that data: the model    *)
(* keeps the data.                                                         *)
(***************************************************************************)
Bytes == {"d", "x", "hi", "lo", "cr", "lf"}

\* The character of the bytes "hi" "lo", and U+FFFD.
TwoByteChar == "ch"
Replacement == "?"

RECURSIVE from_utf8_lossy(_)
from_utf8_lossy(bytes) ==
    IF bytes = <<>> THEN <<>>
    ELSE IF bytes[1] = "hi" /\ Len(bytes) >= 2 /\ bytes[2] = "lo"
    THEN <<TwoByteChar>> \o from_utf8_lossy(SubSeq(bytes, 3, Len(bytes)))
    ELSE IF bytes[1] \in {"hi", "lo"}
    THEN <<Replacement>> \o from_utf8_lossy(Tail(bytes))
    ELSE <<bytes[1]>> \o from_utf8_lossy(Tail(bytes))

RECURSIVE trim_end_matches_cr(_)
trim_end_matches_cr(line) ==
    IF line # <<>> /\ line[Len(line)] = "cr"
    THEN trim_end_matches_cr(SubSeq(line, 1, Len(line) - 1))
    ELSE line

\* str::trim: of the characters here only CR is white space.
RECURSIVE trim(_)
trim(value) ==
    IF value # <<>> /\ value[1] = "cr" THEN trim(Tail(value))
    ELSE trim_end_matches_cr(value)

\* "Process complete lines": the inner while loop.
RECURSIVE ProcessLines(_)
ProcessLines(st) ==
    IF \A i \in DOMAIN st.buffer : st.buffer[i] # "lf" THEN st
    ELSE LET newline_pos == CHOOSE i \in DOMAIN st.buffer :
                                /\ st.buffer[i] = "lf"
                                /\ \A j \in 1..(i - 1) : st.buffer[j] # "lf"
             line == trim_end_matches_cr(SubSeq(st.buffer, 1, newline_pos - 1))
             rest == SubSeq(st.buffer, newline_pos + 1, Len(st.buffer))
         IN  ProcessLines(
               IF line = <<>>
               THEN IF st.data # <<>>
                    THEN [buffer |-> rest, data |-> <<>>, yielded |-> Append(st.yielded, st.data)]
                    ELSE [st EXCEPT !.buffer = rest]
               ELSE IF line[1] = "d"
               THEN [st EXCEPT !.buffer = rest,
                               !.data = (IF @ # <<>> THEN Append(@, "lf") ELSE @) \o trim(Tail(line))]
               ELSE [st EXCEPT !.buffer = rest])

\* The parser before its first chunk.
NoChunkYet == [buffer |-> <<>>, data |-> <<>>, yielded |-> <<>>]

\* One turn of the outer loop: bytes_stream.next() yields a chunk.
OnChunk(st, chunk) == ProcessLines([st EXCEPT !.buffer = @ \o from_utf8_lossy(chunk)])

Chunks == UNION {[1..n -> Bytes] : n \in 1..MaxChunk}

NextChunk(chunk) ==
    /\ Len(payload) + Len(chunk) <= MaxBytes
    /\ payload' = payload \o chunk
    /\ sse' = OnChunk(sse, chunk)
    /\ UNCHANGED <<dvars, pvars, rvars, svars, tvars, fvars, gvars, cvars, lvars, nvars, avars>>

SseNext == \E chunk \in Chunks : NextChunk(chunk)

SseSpec == Init /\ [][SseNext]_vars

(***************************************************************************)
(* The same reader, event by event, on the stream that send_message opens  *)
(* for a session.  An upstream event is its `event:` line, if it has one,  *)
(* and one `data:` line: a JSON object with its type, properties.sessionID *)
(* and properties.part.sessionID, each present or not, or text that is no  *)
(* JSON.  A message.part.updated event carries a delta.                    *)
(***************************************************************************)
\* The session the stream was opened for, and another one.
Session == "S"
SessionIds == {"S", "T"}

PayloadTypes == {"message.part.updated", "session.idle"}

NotJson == [event |-> None, json |-> FALSE, type |-> None, sessionID |-> None, part_sessionID |-> None]

UpstreamEvents ==
    [event : {None, "session.idle"}, json : {TRUE}, type : PayloadTypes \cup {None, "server.heartbeat"},
     sessionID : SessionIds \cup {None}, part_sessionID : SessionIds \cup {None}]
    \cup {NotJson}

\* Ok(None), and the items of the stream.
Skipped == [kind |-> "None", of |-> NotJson]
StreamEvent(kind, event) == [kind |-> kind, of |-> event]

\* data holds the data lines gathered: more than one object, or text that
\* is no JSON, does not parse.
parse_event(event_type, data, session_filter) ==
    IF Len(data) # 1 \/ ~data[1].json THEN StreamEvent("Err", NotJson)
    ELSE LET event == data[1]
             payload_type == IF event.type # None THEN event.type ELSE event_type
         IN  IF event.sessionID \notin {None, session_filter} THEN Skipped
             ELSE IF event.part_sessionID \notin {None, session_filter} THEN Skipped
             ELSE IF payload_type = "message.part.updated" THEN StreamEvent("Content", event)
             ELSE IF payload_type = "session.idle" THEN StreamEvent("Done", event)
             ELSE StreamEvent("Unknown", event)

\* A reader that keeps what it has gathered when the event is skipped.
DispatchedUnlessSkipped(st, result) ==
    IF result = Skipped THEN st
    ELSE [event_type |-> None, data |-> <<>>, yielded |-> Append(st.yielded, result)]

\* The empty line that ends an event: yield unless Ok(None), then clear.
Dispatched(st, result) ==
    [event_type |-> None, data |-> <<>>,
     yielded |-> IF result = Skipped THEN st.yielded ELSE Append(st.yielded, result)]

\* The lines of one upstream event, the empty line included.
OnEvent(st, event) ==
    LET event_type == IF event.event # None THEN event.event ELSE st.event_type
        data == Append(st.data, event)
    IN  Dispatched([st EXCEPT !.event_type = event_type, !.data = data],
                   parse_event(event_type, data, Session))

NextEvent(event) ==
    /\ Len(received) < MaxUpstream
    /\ received' = Append(received, event)
    /\ reader' = OnEvent(reader, event)
    /\ UNCHANGED <<dvars, pvars, rvars, svars, tvars, evars, gvars, cvars, lvars, nvars, avars>>

FilterNext == \E event \in UpstreamEvents : NextEvent(event)

FilterSpec == Init /\ [][FilterNext]_vars

(***************************************************************************)
(* Part VII.  The base64 helpers that carry document updates in frames.    *)
(*                                                                         *)
(* A character of the encoding is its index in ALPHABET, or Pad for '='.   *)
(* The encoder works in usize, the decoder in u8: a left shift there drops *)
(* the bits that leave the byte.  The two sides of each `|` share no bit,  *)
(* so it is their sum.                                                     *)
(***************************************************************************)
Pad == 64

SomeBytes == {0, 1, 97, 128, 254, 255}

\* chunks(n) of a slice.
RECURSIVE chunks(_, _)
chunks(data, n) ==
    IF data = <<>> THEN <<>>
    ELSE IF Len(data) <= n THEN <<data>>
    ELSE <<SubSeq(data, 1, n)>> \o chunks(SubSeq(data, n + 1, Len(data)), n)

RECURSIVE Flatten(_)
Flatten(seqs) == IF seqs = <<>> THEN <<>> ELSE Head(seqs) \o Flatten(Tail(seqs))

\* A left shift that keeps every bit.
ShlWide(b, n) == b * (2 ^ n)

\* `<<` on a u8.
Shl(b, n) == (b * (2 ^ n)) % 256

Shr(b, n) == b \div (2 ^ n)

EncodeChunk(chunk) ==
    LET b0 == chunk[1]
        b1 == IF Len(chunk) > 1 THEN chunk[2] ELSE 0
        b2 == IF Len(chunk) > 2 THEN chunk[3] ELSE 0
    IN  << Shr(b0, 2),
           (b0 % 4) * 16 + Shr(b1, 4),
           IF Len(chunk) > 1 THEN (b1 % 16) * 4 + Shr(b2, 6) ELSE Pad,
           IF Len(chunk) > 2 THEN b2 % 64 ELSE Pad >>

base64_encode(data) ==
    LET cs == chunks(data, 3) IN Flatten([i \in 1..Len(cs) |-> EncodeChunk(cs[i])])

decode_char(c) == IF c = Pad THEN 0 ELSE c

DecodeChunk(chunk) ==
    LET b0 == decode_char(chunk[1])
        b1 == decode_char(chunk[2])
        b2 == decode_char(chunk[3])
        b3 == decode_char(chunk[4])
    IN  <<Shl(b0, 2) + Shr(b1, 4)>>
        \o (IF chunk[3] # Pad THEN <<Shl(b1, 4) + Shr(b2, 2)>> ELSE <<>>)
        \o (IF chunk[4] # Pad THEN <<Shl(b2, 6) + b3>> ELSE <<>>)

\* The text has no white space and only characters of the alphabet, so
\* trim, the filter and decode_char's error have nothing to do.
base64_decode(data) ==
    IF data = <<>> THEN [ok |-> TRUE, bytes |-> <<>>]
    ELSE IF Len(data) % 4 # 0 THEN [ok |-> FALSE, bytes |-> <<>>]
    ELSE LET cs == chunks(data, 4)
         IN  [ok |-> TRUE, bytes |-> Flatten([i \in 1..Len(cs) |-> DecodeChunk(cs[i])])]

\* A frame carries one more byte: the sender encodes, the receiver decodes.
NextByte(b) ==
    /\ Len(original) < MaxLen
    /\ original' = Append(original, b)
    /\ decoded' = base64_decode(base64_encode(original'))
    /\ UNCHANGED <<dvars, pvars, rvars, svars, tvars, evars, fvars, cvars, lvars, nvars, avars>>

Base64Next == \E b \in SomeBytes : NextByte(b)

Base64Spec == Init /\ [][Base64Next]_vars

(***************************************************************************)
(* Part VIII.  JournalDoc (src/src/crdt/journal_doc.rs) on two replicas.   *)
(*                                                                         *)
(* JournalDoc wraps a yrs Doc: a map "blocks" from block id to a text.     *)
(* What the model keeps of yrs is what its update format carries: a doc is *)
(* a set of structs, each with a unique id (a counter and the client that  *)
(* made it), and a set of deleted ids; an update is such a pair too, and   *)
(* applying it adds what is new.  A struct is a map entry for a block or a *)
(* piece of text of an entry, placed after another piece.  What a reader   *)
(* sees is computed from the structs alone: the entry of a block is its    *)
(* undeleted entry of the greatest id, and pieces placed after the same    *)
(* piece read greatest id first.                                           *)
(***************************************************************************)
Replicas == {"A", "B"}

\* Doc::new() gives each replica a client id of its own.
ClientId(r) == IF r = "A" THEN 1 ELSE 2

DocBlocks == {"block"}

\* The id of no struct: the left of a piece placed first.
NoId == <<0, 0>>

Before(i, j) == i[1] < j[1] \/ (i[1] = j[1] /\ i[2] < j[2])

Greatest(ids) == CHOOSE i \in ids : \A j \in ids : j = i \/ Before(j, i)

\* The id of the next struct the client makes.
NextId(doc, client) ==
    <<1 + Cardinality(doc.items), client>>

\* blocks_map().get(key): the entries of the block that are not deleted,
\* the greatest first; none when the block has no text.
EntryOf(doc, block_id) ==
    LET live == {it.id : it \in {it \in doc.items :
                                    /\ it.kind = "entry"
                                    /\ it.block = block_id
                                    /\ it.id \notin doc.deleted}}
    IN  IF live = {} THEN {} ELSE {Greatest(live)}

\* The pieces of an entry placed after left, whether deleted or not.
PiecesAfter(doc, entry, left) ==
    {it.id : it \in {it \in doc.items : /\ it.kind = "text"
                                         /\ it.parent = entry
                                         /\ it.left = left}}

ItemOf(doc, id) == CHOOSE it \in doc.items : it.id = id

\* The pieces of an entry in reading order, the deleted ones included.
RECURSIVE Pieces(_, _, _, _)
Pieces(doc, entry, left, todo) ==
    IF todo = {} THEN <<>>
    ELSE LET first == Greatest(todo)
         IN  <<first>>
             \o Pieces(doc, entry, first, PiecesAfter(doc, entry, first))
             \o Pieces(doc, entry, left, todo \ {first})

PiecesOf(doc, entry) == Pieces(doc, entry, NoId, PiecesAfter(doc, entry, NoId))

Visible(doc, entry) == SelectSeq(PiecesOf(doc, entry), LAMBDA id : id \notin doc.deleted)

\* get_block_content: None, or the text.
get_block_content(doc, block_id) ==
    IF EntryOf(doc, block_id) = {} THEN [some |-> FALSE, text |-> <<>>]
    ELSE LET entry == CHOOSE e \in EntryOf(doc, block_id) : TRUE
             ids == Visible(doc, entry)
         IN  [some |-> TRUE, text |-> [i \in 1..Len(ids) |-> ItemOf(doc, ids[i]).text]]

get_or_create_block_text(doc, client, block_id) ==
    IF EntryOf(doc, block_id) # {} THEN doc
    ELSE [doc EXCEPT !.items = @ \cup {[kind |-> "entry", id |-> NextId(doc, client),
                                        block |-> block_id, parent |-> NoId, left |-> NoId,
                                        text |-> ""]}]

Insert(doc, client, entry, left, content) ==
    [doc EXCEPT !.items = @ \cup {[kind |-> "text", id |-> NextId(doc, client),
                                   block |-> "", parent |-> entry, left |-> left,
                                   text |-> content]}]

set_block_content(doc, client, block_id, content) ==
    LET with_text == get_or_create_block_text(doc, client, block_id)
        entry == CHOOSE e \in EntryOf(with_text, block_id) : TRUE
        ids == Visible(with_text, entry)
        removed == [with_text EXCEPT !.deleted = @ \cup {ids[i] : i \in 1..Len(ids)}]
    IN  Insert(removed, client, entry, NoId, content)

append_block_content(doc, client, block_id, delta) ==
    LET with_text == get_or_create_block_text(doc, client, block_id)
        entry == CHOOSE e \in EntryOf(with_text, block_id) : TRUE
        ids == Visible(with_text, entry)
    IN  Insert(with_text, client, entry, IF ids = <<>> THEN NoId ELSE ids[Len(ids)], delta)

delete_block(doc, block_id) ==
    [doc EXCEPT !.deleted = @ \cup EntryOf(doc, block_id)]

\* state_vector(): what the doc holds.
state_vector(doc) == {it.id : it \in doc.items}

\* The empty state vector, StateVector::default().
NoState == {}

\* encode_state_as_update_v1(sv): the structs sv does not cover, and the deletions.
encode_diff(doc, remote_sv) ==
    [items |-> {it \in doc.items : it.id \notin remote_sv}, deleted |-> doc.deleted]

\* An encode_state that takes the diff against the doc's own state vector.
EncodeAgainstOwnState(doc) == encode_diff(doc, state_vector(doc))

encode_state(doc) == encode_diff(doc, NoState)

\* JournalDoc::apply_update of an update that decodes.
ApplyUpdate(doc, update) ==
    [items |-> doc.items \cup update.items, deleted |-> doc.deleted \cup update.deleted]

AllStructs == UNION {replica[r].items : r \in Replicas}

EditsBudget == Cardinality(AllStructs) + 2 <= MaxStructs

Edit(r, doc) ==
    /\ EditsBudget
    /\ replica' = [replica EXCEPT ![r] = doc]
    /\ exchanged' = {}
    /\ UNCHANGED <<dvars, pvars, rvars, svars, tvars, evars, fvars, gvars, lvars, nvars, avars>>

SetBlockContent(r, block_id, content) ==
    Edit(r, set_block_content(replica[r], ClientId(r), block_id, content))

AppendBlockContent(r, block_id, delta) ==
    Edit(r, append_block_content(replica[r], ClientId(r), block_id, delta))

DeleteBlock(r, block_id) ==
    /\ EntryOf(replica[r], block_id) # {}
    /\ Edit(r, delete_block(replica[r], block_id))

\* to applies from.encode_state().
ApplyState(to, from) ==
    /\ to # from
    /\ <<to, from>> \notin exchanged
    /\ replica' = [replica EXCEPT ![to] = ApplyUpdate(@, encode_state(replica[from]))]
    /\ exchanged' = exchanged \cup {<<to, from>>}
    /\ UNCHANGED <<dvars, pvars, rvars, svars, tvars, evars, fvars, gvars, lvars, nvars, avars>>

CrdtNext ==
    \/ \E r \in Replicas, block_id \in DocBlocks, content \in Texts :
          \/ SetBlockContent(r, block_id, content)
          \/ AppendBlockContent(r, block_id, content)
    \/ \E r \in Replicas, block_id \in DocBlocks : DeleteBlock(r, block_id)
    \/ \E to \in Replicas, from \in Replicas : ApplyState(to, from)

CrdtSpec == Init /\ [][CrdtNext]_vars

(***************************************************************************)
(* Part IX.  The locks of the delegation engine.                           *)
(*                                                                         *)
(* Each field of DelegationManager is behind a tokio RwLock.  A method is  *)
(* the list of its acquisitions and releases (a guard is released where    *)
(* its block ends); a `?` or `return` right after an acquisition releases  *)
(* what is held and ends the call.  Connections are tasks of their own, so *)
(* two methods run side by side.  A write needs the lock free, a read      *)
(* needs it without writer; that tokio also makes a read wait behind a     *)
(* waiting write only adds waiting.                                        *)
(***************************************************************************)
Tasks == {"t1", "t2"}

Acq(lock, mode, fallible) == [do |-> "acquire", lock |-> lock, mode |-> mode, fallible |-> fallible]
Rel(lock) == [do |-> "release", lock |-> lock, mode |-> "", fallible |-> FALSE]

\* One lock section: acquire, work, release at the end of the block.
Section(lock, mode, fallible) == <<Acq(lock, mode, fallible), Rel(lock)>>

EngineMethods ==
    {"register_participant", "unregister_participant", "set_accepting_work", "delegate",
     "accept_work", "decline_work", "submit_work", "approve", "reject", "cancel_work",
     "claim_work", "get_work_queue", "get_approval_queue", "get_work_item"}

LockProgram(op) ==
    CASE op = "register_participant" ->
            Section("participants", "write", FALSE) \o Section("work_queues", "write", FALSE)
            \o Section("approval_queues", "write", FALSE)
      [] op = "unregister_participant" -> Section("participants", "write", FALSE)
      [] op = "set_accepting_work" -> Section("participants", "write", TRUE)
      [] op = "delegate" ->
            Section("participants", "read", TRUE) \o Section("work_items", "write", FALSE)
            \o Section("work_queues", "write", FALSE)
      [] op = "accept_work" -> Section("work_items", "write", TRUE)
      [] op = "decline_work" ->
            Section("work_items", "write", TRUE) \o Section("work_queues", "write", FALSE)
      [] op = "submit_work" ->
            Section("work_items", "write", TRUE) \o Section("work_queues", "write", TRUE)
            \o Section("approvals", "write", FALSE) \o Section("approval_queues", "write", FALSE)
      [] op = "approve" ->
            Section("participants", "read", TRUE) \o Section("approvals", "write", TRUE)
            \o Section("work_items", "write", TRUE) \o Section("approval_queues", "write", FALSE)
            \o Section("approvals", "read", FALSE)
      [] op = "reject" ->
            Section("participants", "read", TRUE) \o Section("approvals", "write", TRUE)
            \o Section("work_items", "write", TRUE) \o Section("work_queues", "write", FALSE)
            \o Section("approval_queues", "write", FALSE) \o Section("approvals", "read", FALSE)
      [] op = "cancel_work" ->
            Section("work_items", "write", TRUE) \o Section("work_queues", "write", FALSE)
      [] op = "claim_work" ->
            Section("participants", "read", TRUE)
            \o <<Acq("work_items", "write", TRUE), Acq("work_queues", "write", FALSE),
                 Rel("work_queues"), Rel("work_items")>>
            \o Section("work_queues", "write", FALSE)
      [] op = "get_work_queue" ->
            <<Acq("work_queues", "read", FALSE), Acq("work_items", "read", FALSE),
              Rel("work_items"), Rel("work_queues")>>
      [] op = "get_approval_queue" ->
            <<Acq("approval_queues", "read", FALSE), Acq("approvals", "read", FALSE),
              Rel("approvals"), Rel("approval_queues")>>
      [] op = "get_work_item" -> Section("work_items", "read", FALSE)
      [] OTHER -> <<>>

\* What the task is about to do, if it is inside a method.
Running(t) == tasks[t].op # "idle"
Instr(t) == LockProgram(tasks[t].op)[tasks[t].pc]

\* The mode in which t holds lock: that of its last acquisition not yet released.
HeldMode(t, lock) ==
    LET prog == LockProgram(tasks[t].op)
        done == 1..(tasks[t].pc - 1)
        acquired == {i \in done : prog[i].do = "acquire" /\ prog[i].lock = lock}
        released == {i \in done : prog[i].do = "release" /\ prog[i].lock = lock}
    IN  IF ~Running(t) \/ Cardinality(acquired) = Cardinality(released) THEN "free"
        ELSE prog[CHOOSE i \in acquired : \A j \in acquired : j <= i].mode

\* RwLock: write().await and read().await complete.
Grants(t, lock, mode) ==
    \A u \in Tasks \ {t} :
        IF mode = "write" THEN HeldMode(u, lock) = "free" ELSE HeldMode(u, lock) # "write"

Awaits(t) == Running(t) /\ Instr(t).do = "acquire"

Advance(t) ==
    tasks' = [tasks EXCEPT ![t] = IF @.pc = Len(LockProgram(@.op))
                                  THEN [op |-> "idle", pc |-> 1]
                                  ELSE [@ EXCEPT !.pc = @ + 1]]

Calls(t, op) ==
    /\ ~Running(t)
    /\ tasks' = [tasks EXCEPT ![t] = [op |-> op, pc |-> 1]]
    /\ UNCHANGED <<dvars, pvars, rvars, svars, tvars, evars, fvars, gvars, cvars, nvars, avars>>

Acquire(t) ==
    /\ Awaits(t)
    /\ Grants(t, Instr(t).lock, Instr(t).mode)
    /\ Advance(t)
    /\ UNCHANGED <<dvars, pvars, rvars, svars, tvars, evars, fvars, gvars, cvars, nvars, avars>>

Release(t) ==
    /\ Running(t)
    /\ Instr(t).do = "release"
    /\ Advance(t)
    /\ UNCHANGED <<dvars, pvars, rvars, svars, tvars, evars, fvars, gvars, cvars, nvars, avars>>

\* `?` or return of an error under the guard just taken: every guard is dropped.
ReturnsErr(t) ==
    /\ Running(t)
    /\ tasks[t].pc > 1
    /\ LockProgram(tasks[t].op)[tasks[t].pc - 1].do = "acquire"
    /\ LockProgram(tasks[t].op)[tasks[t].pc - 1].fallible
    /\ tasks' = [tasks EXCEPT ![t] = [op |-> "idle", pc |-> 1]]
    /\ UNCHANGED <<dvars, pvars, rvars, svars, tvars, evars, fvars, gvars, cvars, nvars, avars>>

LockNext ==
    \E t \in Tasks :
        \/ \E op \in EngineMethods : Calls(t, op)
        \/ Acquire(t)
        \/ Release(t)
        \/ ReturnsErr(t)

LockSpec == Init /\ [][LockNext]_vars

(***************************************************************************)
(* Part X.  A subscription from its reply to its end.                      *)
(*                                                                         *)
(* handle_subscribe, between room.join and room.subscribe(), reads the     *)
(* room's participants and writes the Subscribed reply; each is an await,  *)
(* and other connections' handlers run meanwhile.  handle_unsubscribe      *)
(* removes the subscription, leaves the room and replies; the relay task   *)
(* of the subscription is not told.                                        *)
(***************************************************************************)
\* room.participants() and the Subscribed reply built from it.  events is
\* what the room had broadcast when the snapshot was taken.
SendSubscribed(c) ==
    /\ handler[c].pc = "joined"
    /\ handler[c].pid \notin DOMAIN snapshots
    /\ snapshots' = Put(snapshots, handler[c].pid,
                        [participants |-> DOMAIN members[handler[c].room],
                         events |-> room_events[handler[c].room]])
    /\ UNCHANGED <<dvars, pvars, rvars, svars, tvars, evars, fvars, gvars, cvars, lvars, avars>>

\* room.subscribe() and the spawn, which come after the reply.
SpawnRelayAfterReply(c) ==
    /\ handler[c].pid \in DOMAIN snapshots
    /\ SpawnRelay(c)

SubscribeNext ==
    \/ \E c \in Connections, j \in Journals :
            \/ get_or_create(c, j)
            \/ handle_unsubscribe(c, j)
            \/ update_cursor(c, j)
    \/ \E c \in Connections : join(c) \/ SendSubscribed(c) \/ SpawnRelayAfterReply(c)
    \/ \E i \in DOMAIN relays : RelayForward(i)

SubscribeSpec == Init /\ [][SubscribeNext]_vars

(***************************************************************************)
(* Part XI.  Delegation requests of a connection registered in several     *)
(* journals.                                                               *)
(*                                                                         *)
(* RegisterParticipant records the new participant under the journal the   *)
(* frame names.  AcceptWork, DeclineWork and the other requests that carry *)
(* no journal id take delegation_registrations.values().next(): the first  *)
(* value in the iteration order of a HashMap, which is any of them.        *)
(***************************************************************************)
RegistrationJournals == {"journal", "notes"}

\* conn.delegation_registrations.values()
RegisteredHere == {journal_registrations[j] : j \in DOMAIN journal_registrations}

\* The RegisterParticipant frame for journal j: a fresh participant, stored
\* under j (an earlier registration for j is overwritten, not unregistered).
RegisterInJournal(j, p) ==
    /\ Registers(p)
    /\ journal_registrations' = Put(journal_registrations, j, p)
    /\ UNCHANGED <<work_items, approvals, events, call, last, pvars, rvars, svars,
                   tvars, evars, fvars, gvars, cvars, lvars, nvars, executed>>

\* The AcceptWork frame: the participant is values().next(), and
\* accept_work(work_item_id, participant_id) runs as that participant.
AcceptWork(w) ==
    /\ RegisteredHere # {}
    /\ InFlight = {}
    /\ \E participant_id \in RegisteredHere :
          LET res == AcceptCheck(w, participant_id) IN
            /\ work_items' = IF res = "ok" THEN SetStatus(work_items, w, "in_progress")
                                           ELSE work_items
            /\ events' = IF res = "ok" THEN [events EXCEPT ![w] = @ \cup {"WorkAccepted"}]
                                       ELSE events
            /\ last' = [res |-> res, ev |-> IF res = "ok" THEN "WorkAccepted" ELSE None]
            /\ executed' = [type |-> "accept_work",
                            party |-> IF w \in 1..Len(work_items)
                                      THEN work_items[w].assignee_id ELSE None,
                            as |-> participant_id, res |-> res]
    /\ UNCHANGED <<participants, approvals, work_queues, approval_queues, call, pvars, rvars,
                   svars, tvars, evars, fvars, gvars, cvars, lvars, nvars, journal_registrations>>

\* The DeclineWork frame, likewise; decline_work runs its two sections.
DeclineWork(w) ==
    /\ RegisteredHere # {}
    /\ InFlight = {}
    /\ \E participant_id \in RegisteredHere :
          LET res == DeclineCheck(w, participant_id) IN
            /\ work_items' = IF res = "ok" THEN SetStatus(work_items, w, "declined")
                                           ELSE work_items
            /\ work_queues' = IF res = "ok" THEN Retain(work_queues, participant_id, w)
                                            ELSE work_queues
            /\ events' = IF res = "ok" THEN [events EXCEPT ![w] = @ \cup {"WorkDeclined"}]
                                       ELSE events
            /\ last' = [res |-> res, ev |-> IF res = "ok" THEN "WorkDeclined" ELSE None]
            /\ executed' = [type |-> "decline_work",
                            party |-> IF w \in 1..Len(work_items)
                                      THEN work_items[w].assignee_id ELSE None,
                            as |-> participant_id, res |-> res]
    /\ UNCHANGED <<participants, approvals, approval_queues, call, pvars, rvars,
                   svars, tvars, evars, fvars, gvars, cvars, lvars, nvars, journal_registrations>>

RegistrationsNext ==
    \/ \E j \in RegistrationJournals, p \in ParticipantIds : RegisterInJournal(j, p)
    \/ \E p \in ParticipantIds :
            \/ \E assignee_id \in ParticipantIds : DelegateDirect(p, assignee_id)
            \/ Delegate2(p) \/ Delegate3(p) \/ Delegate4(p)
    \/ \E w \in 0..MaxItems : AcceptWork(w) \/ DeclineWork(w)

RegistrationsSpec == Init /\ [][RegistrationsNext]_vars

(***************************************************************************)
(* Properties of the delegation engine.                                    *)
(***************************************************************************)
Items == 1..Len(work_items)
Requests == 1..Len(approvals)

QueuedFor(w) == {p \in DOMAIN work_queues : InQueue(work_queues, p, w)}
ApprovalQueuedFor(a) == {p \in DOMAIN approval_queues : InQueue(approval_queues, p, a)}

TerminalStatusIsFinal ==
    [][\A w \in Items :
          is_terminal(work_items[w].status)
              => work_items'[w].status = work_items[w].status]_vars

\* The transitions of the work item state machine.
Transition(from, to) ==
    \/ from = "pending" /\ to \in {"in_progress", "declined"}
    \/ from \in {"in_progress", "rejected"} /\ to \in {"awaiting_approval", "approved"}
    \/ from = "awaiting_approval" /\ to \in {"approved", "rejected"}
    \/ ~is_terminal(from) /\ to = "cancelled"

\* C3: a work item's status changes only along a transition of the state
\* machine, and a call that is refused leaves every status as it was.
OnlyStateMachineTransitions ==
    [][/\ \A w \in Items :
             work_items'[w].status # work_items[w].status
                 => Transition(work_items[w].status, work_items'[w].status)
       /\ last'.res \notin {"ok", "running"}
             => \A w \in Items : work_items'[w].status = work_items[w].status]_vars

\* C5: under any interleaving, no work item id is in more than one work queue
\* or more than once in a queue.
NoItemQueuedTwice ==
    \A w \in Items :
        /\ Cardinality(QueuedFor(w)) <= 1
        /\ \A p \in DOMAIN work_queues : Occurrences(work_queues[p], w) <= 1

\* An approval request that some call has stored or resolved but whose queue
\* that call has not yet updated.
BeingMoved(a) ==
    \E q \in ParticipantIds :
        /\ call[q].a = a
        /\ \/ At(q, "submit", 4)
           \/ call[q].op \in {"approve", "reject"} /\ call[q].pc \in 3..5

OneApprovalPerItem ==
    \A a, b \in Requests :
        approvals[a].work_item_id = approvals[b].work_item_id => a = b

\* C7, amended: at most one pending approval request exists per work item
\* (resolved requests are kept; a re-submission after a reject adds a request).
OnePendingApprovalPerItem ==
    \A a, b \in Requests :
        /\ approvals[a].work_item_id = approvals[b].work_item_id
        /\ approvals[a].status = "pending"
        /\ approvals[b].status = "pending"
        => a = b

\* A re-submitted item: its rejected request and its pending one.
Resubmitted ==
    \E a, b \in Requests :
        /\ approvals[a].work_item_id = approvals[b].work_item_id
        /\ approvals[a].status = "rejected"
        /\ approvals[b].status = "pending"

\* A step that returns an error and changes nothing of the engine.
RefusedUnchanged ==
    /\ last'.res \notin {"ok", "running"}
    /\ last'.ev = None
    /\ UNCHANGED <<participants, work_items, approvals, work_queues, approval_queues, events>>

\* C8: delegate, approve and reject called by a participant that lacks the
\* delegate or approve capability return InsufficientCapability, change no work
\* item, approval or queue, and broadcast no event.
CapabilityRequired ==
    [][\A p \in DOMAIN participants :
          /\ ~can_delegate(participants[p]) =>
                \A assignee_id \in ParticipantIds, ra \in BOOLEAN,
                   approver_id \in ParticipantIds \cup {None} :
                    Delegate1(p, assignee_id, ra, approver_id)
                        => RefusedUnchanged /\ last'.res = "InsufficientCapability"
          /\ ~can_approve(participants[p]) =>
                \A a \in ApprovalArgs :
                    Approve1(p, a) \/ Reject1(p, a)
                        => RefusedUnchanged /\ last'.res = "InsufficientCapability"]_vars

\* A call just refused for lack of capability, with an item and a pending
\* request in the engine.
RefusedForCapability ==
    /\ last.res = "InsufficientCapability"
    /\ \E a \in Requests : approvals[a].status = "pending" /\ ApprovalQueuedFor(a) # {}

\* C9: accept_work, decline_work and submit_work by anyone but the current
\* assignee, cancel_work by anyone but the delegator, and approve and reject by
\* anyone but the designated approver are refused and change nothing.
OnlyTheRightCaller ==
    [][\A p \in DOMAIN participants :
          /\ \A w \in Items :
                /\ work_items[w].assignee_id # p =>
                      (accept_work(p, w) \/ Decline1(p, w) \/ Submit1(p, w) => RefusedUnchanged)
                /\ work_items[w].delegator_id # p =>
                      (Cancel1(p, w) => RefusedUnchanged)
          /\ /\ call[p].op \in {"approve", "reject"}
             /\ call[p].a \in Requests
             /\ approvals[call[p].a].approver_id # p
             => (Approve2(p) \/ Reject2(p) => RefusedUnchanged)]_vars

\* A call just refused because of who made it.
RefusedForCaller ==
    /\ last.res = "NotAuthorized"
    /\ \E w \in Items : work_items[w].status # "pending"

(***************************************************************************)
(* Properties of the streaming-response pipeline.                          *)
(***************************************************************************)
\* One step of the block status machine; a write of the status the block
\* already has is a stable repeat.
StatusStep(from, to) ==
    \/ to = from
    \/ from = None /\ to = "pending"
    \/ from = "pending" /\ to = "streaming"
    \/ from = "streaming" /\ to \in {"complete", "error"}

\* C4: every status write takes the block one step along pending, streaming,
\* then complete or error, or repeats its status; none changes a block that
\* is already complete or error.
BlockStatusMonotone == [][StatusStep(block_status, block_status')]_vars

\* The frames the pipeline wrote about the assistant block.
ResponseFrames ==
    SelectSeq(frames, LAMBDA f :
        \/ f = Frame("BlockCreated", "assistant")
        \/ f.type \in {"BlockStatusChanged", "BlockContentDelta"})

IsFinal(f) == f.type = "BlockStatusChanged" /\ f.arg \in {"complete", "error"}

\* C10: the frames about the assistant block sent to the originating
\* connection are BlockCreated, BlockStatusChanged(streaming), deltas, and one
\* final BlockStatusChanged(complete or error) with no frame after it; a
\* response that took events from the upstream and returned has sent the
\* final frame.
ResponseFramesInOrder ==
    LET fs == ResponseFrames IN
        /\ Len(fs) >= 1 => fs[1] = Frame("BlockCreated", "assistant")
        /\ Len(fs) >= 2 => fs[2] = Frame("BlockStatusChanged", "streaming")
        /\ \A i \in 3..Len(fs) :
              \/ fs[i].type = "BlockContentDelta"
              \/ IsFinal(fs[i]) /\ i = Len(fs)
        /\ pipe = "returned" /\ Len(fs) >= 2 /\ consumed > 0 => IsFinal(fs[Len(fs)])

\* The pipeline is between its first store write and its return: the
\* originating connection's handler is inside handle_submit.
PipelineRunning == pipe \notin {"idle", "returned"}

\* C13: while the pipeline a connection started is running, that connection's
\* handler dispatches a further frame, such as a Cancel for the streaming block.
DispatchesWhilePipelineRuns ==
    PipelineRunning /\ block_status = "streaming" /\ cancels < MaxCancels
        => ENABLED handle_cancel("origin")

\* C14: once a Cancel for the streaming block has been handled, the pipeline
\* sends at most two further BlockContentDelta frames.
FewDeltasAfterCancel == late_deltas <= 2

\* C15: the block's content is written (update_block_content in the Done and
\* Error branches) only while the block's status is pending or streaming.
ContentWrittenOnlyWhileOpen ==
    [][OnDone \/ OnError => block_status \in {"pending", "streaming"}]_vars

(***************************************************************************)
(* Properties of the events the delegation engine broadcasts.              *)
(***************************************************************************)
\* The events that announce a transition into a state the transition
\* announced by ev leaves (the empty set: ev needs none before it).
\* submit_work approves an item that needs no approval, with no request.
ComesAfter(ev) ==
    CASE ev \in {"WorkAccepted", "WorkDeclined", "WorkClaimed"} -> {"WorkDelegated"}
      [] ev = "ApprovalRequested" -> {"WorkAccepted"}
      [] ev = "WorkApproved" -> {"ApprovalRequested", "WorkAccepted"}
      [] ev = "WorkRejected" -> {"ApprovalRequested"}
      [] OTHER -> {}

\* C16: for each work item an event is broadcast only after the event of the
\* transition before it: WorkDelegated before WorkAccepted or WorkDeclined,
\* WorkAccepted before ApprovalRequested, ApprovalRequested before WorkApproved
\* or WorkRejected, under any interleaving of the calls.
EventsFollowTransitions ==
    \A w \in 1..Len(events) :
        \A ev \in events[w] :
            ComesAfter(ev) # {} => ComesAfter(ev) \cap events[w] # {}

\* C17: in every work queue the items are in the order in which they were
\* delegated (ids are issued in that order), also after reject has re-added an
\* item and claim_work has moved one.
QueueInDelegationOrder ==
    \A p \in DOMAIN work_queues :
        \A i, j \in 1..Len(work_queues[p]) :
            i < j => work_queues[p][i] <= work_queues[p][j]

(***************************************************************************)
(* Properties of rooms, presence and the relay.                            *)
(***************************************************************************)
\* C11: once a connection's task has ended, no room holds a presence
\* participant that the connection joined and the delegation engine holds no
\* participant that the connection registered, whatever frames it had sent.
ReleasedAtTermination ==
    \A c \in Connections :
        handler[c].pc = "closed" =>
            /\ \A r \in RoomIds : \A pid \in DOMAIN members[r] : pid.conn # c
            /\ \A p \in DOMAIN participants : registered_by[p] # c

\* C12: under any interleaving of Subscribe handling and cleanup_empty_rooms,
\* a room object that holds a participant is the one the room manager maps
\* its journal to.
OccupiedRoomIsRegistered ==
    \A r \in RoomIds :
        DOMAIN members[r] # {} => \E j \in Journals : rooms[j] = r

\* C18: no connection is sent a relayed ParticipantJoined, CursorMoved or
\* CrdtUpdate frame for an event that its own frame caused.
NoEchoToOriginator ==
    \A c \in Connections :
        \A frame \in relayed[c] :
            frame.type \in {"ParticipantJoined", "CursorMoved", "CrdtUpdate"}
                => frame.from # c

\* C19: a CrdtUpdate event is sent on a room's channel only for an update that
\* the room's document has applied; an update that fails to apply (it does
\* not decode) produces no CrdtUpdate event.
BroadcastOnlyApplied ==
    \A r \in RoomIds :
        \A ev \in room_events[r] :
            ev.type = "CrdtUpdate" => ev.arg \in docs[r] /\ Decodes(ev.arg)

\* An applied update relayed to another connection than the one that sent it.
AppliedUpdateRelayed ==
    \E c \in Connections :
        \E frame \in relayed[c] :
            /\ frame.type = "CrdtUpdate"
            /\ frame.from # c
            /\ \E r \in RoomIds : frame.arg \in docs[r]

\* C20: a sweep of stale participants moves a participant's status only from
\* active to idle or from idle to disconnected, and a StatusChanged event is
\* sent for every change it makes.
StaleSweepStepsOnce ==
    [][\A r \in RoomIds :
          \A pid \in DOMAIN members[r] \cap DOMAIN members'[r] :
              LET old == members[r][pid].status
                  new == members'[r][pid].status
              IN new # old /\ new # "active"
                    => /\ <<old, new>> \in {<<"active", "idle">>, <<"idle", "disconnected">>}
                       /\ RoomEvent("StatusChanged", pid, new, None) \in room_events'[r]]_vars

(***************************************************************************)
(* Properties of frame handling.                                           *)
(***************************************************************************)
\* C21: once a write to a connection's sink has failed, the handler dispatches
\* no further frame of that connection (it goes on to the disconnect cleanup
\* only), and the other connections are left as they are.
StopsAfterFailedWrite ==
    [][\A c \in Connections :
          write_failed[c] =>
              /\ ~ParseFailure(c)
              /\ \A j \in Journals :
                    /\ ~GetPresence(c, j)
                    /\ ~get_or_create(c, j)
                    /\ ~RegisterParticipant(c, j, "alice")]_vars

\* C22: a text frame that does not parse gets one Error frame, changes no
\* subscription, registration, room or stored state, and leaves the handler
\* taking the connection's next frame.
ParseFailureOnlyReplies ==
    [][\A c \in Connections :
          ParseFailure(c) =>
              /\ sink[c] = "open" => replies'[c] = Append(replies[c], "Error")
              /\ \A other \in Connections \ {c} : replies'[other] = replies[other]
              /\ UNCHANGED <<dvars, pvars, rvars, xvars>>
              /\ AtFrame(c)']_vars

\* A connection with a subscription and a registration that has been sent
\* an Error frame and then served again.
ServedAfterParseFailure ==
    \E c \in Connections :
        /\ replies[c] = <<"Error", "Presence">>
        /\ \E j \in Journals :
              /\ subscriptions[c][j] # NoPid
              /\ delegation_registrations[c][j] # None

(***************************************************************************)
(* Properties of the delegate preconditions.                               *)
(***************************************************************************)
\* Which of the four preconditions of delegate a request violates first
\* (0: none): delegator exists, delegator can delegate, assignee exists,
\* assignee can receive work.
FailedPrecondition(delegator_id, assignee_id) ==
    IF delegator_id \notin DOMAIN participants THEN 1
    ELSE IF ~can_delegate(participants[delegator_id]) THEN 2
    ELSE IF assignee_id \notin DOMAIN participants THEN 3
    ELSE IF ~can_receive_work(participants[assignee_id]) THEN 4
    ELSE 0

\* C23: two delegate requests that violate different preconditions are
\* refused with different error kinds.
DistinctDelegateErrors ==
    \A d1, a1, d2, a2 \in ParticipantIds :
        /\ FailedPrecondition(d1, a1) # 0
        /\ FailedPrecondition(d2, a2) # 0
        /\ FailedPrecondition(d1, a1) # FailedPrecondition(d2, a2)
        => DelegateCheck(d1, a1) # DelegateCheck(d2, a2)

(***************************************************************************)
(* Properties of the persisted content.                                    *)
(***************************************************************************)
\* The texts of the BlockContentDelta frames written so far, in order.
DeltaTexts ==
    LET deltas == SelectSeq(frames, LAMBDA f : f.type = "BlockContentDelta")
    IN  [i \in 1..Len(deltas) |-> deltas[i].arg]

\* C24: when Done has been processed (update_block_content has returned),
\* the content persisted for the assistant block is the texts of the
\* BlockContentDelta frames sent for it, in order.
DoneContentIsDeltas == pipe = "done" => block_content = DeltaTexts

\* Done processed after two different deltas.
DoneAfterTwoDeltas ==
    /\ pipe = "done"
    /\ Len(block_content) = 2
    /\ block_content[1] # block_content[2]

(***************************************************************************)
(* Properties of the store.                                                *)
(***************************************************************************)
\* The user blocks of b's journal created strictly before b.
EarlierUsers(b) ==
    {u \in DOMAIN blocks : /\ blocks[u].journal_id = blocks[b].journal_id
                           /\ blocks[u].block_type = "user"
                           /\ blocks[u].created_at < blocks[b].created_at}

\* The contents of the latest of them.
NearestPrompts(b) ==
    {blocks[u].content : u \in {u \in EarlierUsers(b) :
                                   \A v \in EarlierUsers(b) :
                                       blocks[v].created_at <= blocks[u].created_at}}

\* The block a fork or rerun of source has just inserted, as its documentation
\* has it: a user block whose parent and origin are the source.
NewBlockOf(source) ==
    /\ Len(blocks') > Len(blocks)
    /\ blocks'[Len(blocks) + 1].block_type = "user"
    /\ blocks'[Len(blocks) + 1].parent_id = source
    /\ blocks'[Len(blocks) + 1].forked_from_id = source

\* C25: a fork of block b inserts a user block with parent_id =
\* forked_from_id = b whose content is b's content when b is a user block and
\* the content of the nearest preceding user block when b is an assistant
\* block (one that has a preceding user block).
ForkCarriesPrompt ==
    [][\A b \in DOMAIN blocks, written \in BOOLEAN :
          handle_fork(b, written) =>
              /\ NewBlockOf(b)
              /\ blocks[b].block_type = "user" =>
                    blocks'[Len(blocks) + 1].content = blocks[b].content
              /\ blocks[b].block_type = "assistant" /\ EarlierUsers(b) # {} =>
                    blocks'[Len(blocks) + 1].content \in NearestPrompts(b)]_vars

\* C26: a rerun of an assistant block inserts a user block with parent_id =
\* forked_from_id = source carrying the content of the latest user block of
\* the journal created strictly before the source; when there is none it
\* fails with not found and inserts nothing.
RerunReplaysPrompt ==
    [][\A b \in DOMAIN blocks, written \in BOOLEAN :
          handle_rerun(b, written) /\ blocks[b].block_type = "assistant" =>
              IF EarlierUsers(b) = {}
              THEN blocks' = blocks /\ store_result' = "NotFound"
              ELSE /\ NewBlockOf(b)
                   /\ blocks'[Len(blocks) + 1].content \in NearestPrompts(b)]_vars

\* An assistant block has been rerun with the prompt before it, while the
\* journal holds a later user block of another content.
RerunPickedEarlierPrompt ==
    \E b \in DOMAIN blocks, u \in DOMAIN blocks :
        /\ blocks[b].forked_from_id # NoBlock
        /\ blocks[blocks[b].forked_from_id].block_type = "assistant"
        /\ blocks[b].content \in Texts
        /\ u < b
        /\ blocks[u].block_type = "user"
        /\ blocks[u].journal_id = blocks[b].journal_id
        /\ blocks[u].created_at > blocks[blocks[b].forked_from_id].created_at
        /\ blocks[u].content # blocks[b].content

SameEventsAsUnsplit == sse.yielded = OnChunk(NoChunkYet, payload).yielded

\* The events of another session.
Foreign(event) ==
    \/ event.sessionID \notin {None, Session}
    \/ event.part_sessionID \notin {None, Session}

RECURSIVE Read(_, _)
Read(st, upstream) ==
    IF upstream = <<>> THEN st ELSE Read(OnEvent(st, Head(upstream)), Tail(upstream))

Base64RoundTrip ==
    /\ base64_decode(base64_encode(original)) = [ok |-> TRUE, bytes |-> original]
    /\ decoded = [ok |-> TRUE, bytes |-> original]

\* A sequence of four bytes, the last one alone in its chunk, is back.
RoundTripWithPadding ==
    /\ Len(original) = 4
    /\ original[1] = 255
    /\ original[4] = 254
    /\ base64_encode(original)[7] = Pad
    /\ decoded.bytes = original

EngineLocks == {"participants", "work_items", "approvals", "work_queues", "approval_queues"}

HeldBy(t) == {lock \in EngineLocks : HeldMode(t, lock) # "free"}

\* t waits for a lock that u keeps from it.
WaitsFor(t, u) ==
    /\ Awaits(t)
    /\ ~Grants(t, Instr(t).lock, Instr(t).mode)
    /\ Instr(t).lock \in HeldBy(u)

\* C32: no two engine operations wait for locks that each other holds.
NoLockCycle == \A t \in Tasks : \A u \in Tasks \ {t} : ~(WaitsFor(t, u) /\ WaitsFor(u, t))

\* The place of a field in the order participants, work items, approvals, queues.
LockRank(lock) ==
    CASE lock = "participants" -> 1
      [] lock = "work_items" -> 2
      [] lock = "approvals" -> 3
      [] OTHER -> 4

\* C33: an operation that awaits a lock while it holds others holds only
\* locks that come earlier in the order participants, work items, approvals,
\* queues, and holds none of them for writing.
LocksTakenInOrder ==
    \A t \in Tasks :
        Awaits(t) =>
            \A held \in HeldBy(t) :
                /\ LockRank(held) < LockRank(Instr(t).lock)
                /\ HeldMode(t, held) # "write"

(***************************************************************************)
(* Properties of the pipeline's end.                                       *)
(***************************************************************************)
FinalStatuses == {"complete", "error"}

\* C34: the assistant block a request created ends complete or error: once
\* the pipeline has returned to the handler, which is the last the server
\* does for the block of its own accord, the block's status is one of the two.
ReturnedBlockIsFinal == pipe = "returned" => block_status \in FinalStatuses

\* The Done arm or the Error arm has run to its end: its status frame is out.
TerminalProcessed ==
    \E i \in 1..Len(frames) :
        frames[i] \in {Frame("BlockStatusChanged", "complete"), Frame("BlockStatusChanged", "error")}

\* C35: once the pipeline has processed a Done or an Error event, it takes
\* no further event from the upstream stream.
StopsAfterTerminal == [][TerminalProcessed => consumed' = consumed]_vars

(***************************************************************************)
(* Properties of a subscription.                                           *)
(***************************************************************************)
\* The events room r broadcast after the snapshot of participant pid's
\* Subscribed reply was taken.
SinceSnapshot(pid, r) == room_events[r] \ snapshots[pid].events

\* C36: every event the room broadcast after the snapshot of a connection's
\* Subscribed reply reaches the connection's relay: it has been forwarded,
\* or it waits in the relay's receiver, or the relay filters it as its own.
NoEventBeforeRelay ==
    \A i \in DOMAIN relays :
        relays[i].running =>
            \A ev \in SinceSnapshot(relays[i].pid, relays[i].room) :
                \/ Suppressed(relays[i], ev)
                \/ ev \in relayed[relays[i].conn]
                \/ \E k \in 1..Len(relays[i].inbox) : relays[i].inbox[k] = ev

\* C37: a connection that is subscribed to no journal (each Unsubscribe has
\* been answered) is sent no further relayed room event.
Unsubscribed(c) == \A j \in Journals : subscriptions[c][j] = NoPid

NothingRelayedAfterUnsubscribe ==
    [][\A c \in Connections : Unsubscribed(c) => relayed'[c] = relayed[c]]_vars

(***************************************************************************)
(* Properties of delegation among participants that come and go.           *)
(***************************************************************************)
\* This step appends to p's work queue.
AppendsTo(p) == Len(QueueOf(work_queues', p)) > Len(QueueOf(work_queues, p))

\* C38: a work item is appended to an assignee's queue only when the
\* assignee is registered and can receive work at that moment.
AppendOnlyToReceiver ==
    [][\A p \in ParticipantIds :
          AppendsTo(p) => p \in DOMAIN participants /\ can_receive_work(participants[p])]_vars

(***************************************************************************)
(* Properties of pending approvals.                                        *)
(***************************************************************************)
\* C39: the approver of every pending approval request is a registered
\* participant that holds the approve capability.
PendingApproverCanApprove ==
    \A a \in 1..Len(approvals) :
        approvals[a].status = "pending" =>
            /\ approvals[a].approver_id \in DOMAIN participants
            /\ can_approve(participants[approvals[a].approver_id])

(***************************************************************************)
(* Properties of requests without a journal id.                            *)
(***************************************************************************)
\* C40: a request about a work item whose designated party (for accept and
\* decline, the assignee) is one of the connection's registered
\* participants is executed as that participant.
ExecutedAsDesignated ==
    executed.party \in RegisteredHere => executed.as = executed.party

====
